---- MODULE Spec2Model ----
(***************************************************************************)
(* Generational backup and recovery (hourly -> daily -> weekly -> monthly) *)
(* of InformaticsMatters/bandr: sql-backup/backup.py,                      *)
(* postgresql-backup/backup.py, sql-recovery/recovery.py and               *)
(* postgresql-recovery/recovery.py.                                        *)
(*                                                                         *)
(* The shared state is the backup volume (the root directory, the tier     *)
(* directories, the records in them and the live file of the hourly        *)
(* directory).  A run of one of the four scripts is a process whose        *)
(* position is run[p].pc; every step is one file operation or one external *)
(* command of the script.  Strings are sequences of character codes, so    *)
(* that sorting, globbing and substring search are computed on the         *)
(* characters as Python does.                                              *)
(*                                                                         *)
(* The environment of a run does not change while the run lasts; the model *)
(* draws each setting where the script first uses it.                      *)
(***************************************************************************)
EXTENDS Integers, Sequences, FiniteSets, TLC

(***************************************************************************)
(* Bounds of the model.                                                    *)
(***************************************************************************)
\* number of distinct clock readings datetime.now() can return
MaxClock == 2
\* largest BACKUP_COUNT / BACKUP_PRIOR_COUNT drawn from the environment
MaxCount == 2
\* runs started in one behaviour
MaxRuns == 4

(***************************************************************************)
(* Error numbers of sql-backup/backup.py and postgresql-backup/backup.py.  *)
(***************************************************************************)
ERROR_NO_PGPASS == 1
ERROR_UNEXPECTED_BU_TYPE == 2
ERROR_UNEXPECTED_PBU_TYPE == 3
ERROR_NO_ROOT == 4
ERROR_BU_ERROR == 5
ERROR_NO_BU == 6
ERROR_MKDIR == 7
ERROR_REMOVE == 8
ERROR_BACKUP_COPY == 9
ERROR_REMOVE_COPY == 10
ERROR_REMOVE_EXPIRED == 11
ERROR_REMOVE_OLDEST == 12
ERROR_MISSING_RSYNC_USER == 14
ERROR_MISSING_RSYNC_PASS == 15
ERROR_MISSING_RSYNC_PATH == 16
ERROR_RSYNC_FAILED == 17
ERROR_KEYSCAN_FAILED == 18
ERROR_INCOMPLETE_AWS == 21

B_HOURLY == "hourly"
B_DAILY == "daily"
B_WEEKLY == "weekly"
B_MONTHLY == "monthly"

\* the tier directories <root>/<tier>
Tiers == {B_HOURLY, B_DAILY, B_WEEKLY, B_MONTHLY}

\* recovery.py
R_ERROR_NO_ROOT == 1
R_ERROR_AGE_NOT_INT == 2
R_ERROR_LATEST_HAD_NO_DATETIME == 3
R_ERROR_LATEST_TOO_OLD == 4
R_ERROR_NO_LATEST == 5

\* 'NONE', 'LATEST'
B_NONE == <<78, 79, 78, 69>>
B_LATEST == <<76, 65, 84, 69, 83, 84>>

SQL_BACKUP == "sql-backup"
SQL_RECOVERY == "sql-recovery"
PG_RECOVERY == "postgresql-recovery"

(***************************************************************************)
(* Strings: sequences of character codes.                                  *)
(***************************************************************************)
ChDash == 45
ChDot == 46
ChZero == 48
ChColon == 58
ChT == 84
ChZ == 90

\* 'backup'
BACKUP_FILE_PREFIX == <<98, 97, 99, 107, 117, 112>>
\* 'dumpall.sql.gz'
BACKUP_LIVE_FILE == <<100, 117, 109, 112, 97, 108, 108, 46, 115, 113, 108, 46, 103, 122>>

\* variant: '%d' % n, no leading zero
Pad2_Unpadded(n) == IF n < 10 THEN <<ChZero + n>> ELSE <<ChZero + (n \div 10), ChZero + (n % 10)>>

\* '%02d' % n
Pad2(n) == <<ChZero + ((n \div 10) % 10), ChZero + (n % 10)>>
\* '%04d' % n
Pad4(n) == <<ChZero + ((n \div 1000) % 10), ChZero + ((n \div 100) % 10)>> \o Pad2(n % 100)
\* '%06d' % n
Pad6(n) == Pad2((n \div 10000) % 100) \o Pad2((n \div 100) % 100) \o Pad2(n % 100)

\* Python's str comparison: by code, a proper prefix sorts first
StrLess(a, b) ==
    \/ \E i \in 1..Len(a) :
          /\ i <= Len(b)
          /\ \A j \in 1..(i - 1) : a[j] = b[j]
          /\ a[i] < b[i]
    \/ /\ Len(a) < Len(b)
       /\ \A j \in 1..Len(a) : a[j] = b[j]

\* str.startswith
StartsWith(s, pre) ==
    /\ Len(pre) <= Len(s)
    /\ \A j \in 1..Len(pre) : s[j] = pre[j]

\* needle in hay (Python's substring test)
Contains(hay, needle) ==
    \E k \in 0..(Len(hay) - Len(needle)) :
        \A j \in 1..Len(needle) : hay[k + j] = needle[j]

\* list.sort() of a set of distinct strings
RECURSIVE SortAsc(_)
SortAsc(S) ==
    IF S = {} THEN <<>>
    ELSE LET m == CHOOSE x \in S : \A y \in S \ {x} : StrLess(x, y)
         IN <<m>> \o SortAsc(S \ {m})

\* seq[:n] of Python (n may exceed the length; a negative n counts from the end)
Take(seq, n) ==
    LET m == IF n < 0 THEN Len(seq) + n ELSE n
    IN IF m <= 0 THEN <<>>
       ELSE IF m >= Len(seq) THEN seq
       ELSE SubSeq(seq, 1, m)

\* the numbers written at positions i, i+1 (and i+2, i+3) of a string
Num2(s, i) == (s[i] - ChZero) * 10 + (s[i + 1] - ChZero)
Num4(s, i) == Num2(s, i) * 100 + Num2(s, i + 2)

\* str.upper() on ASCII
Upper(s) == [i \in 1..Len(s) |-> IF s[i] \in 97..122 THEN s[i] - 32 ELSE s[i]]

\* int(s) succeeds: an optional sign, then digits
IsInt(s) ==
    LET d == IF Len(s) > 0 /\ s[1] \in {43, ChDash} THEN Tail(s) ELSE s
    IN Len(d) > 0 /\ \A i \in 1..Len(d) : d[i] \in 48..57

RECURSIVE Digits(_)
\* the value of a string of digits
Digits(d) ==
    IF d = <<>> THEN 0
    ELSE 10 * Digits(SubSeq(d, 1, Len(d) - 1)) + (d[Len(d)] - ChZero)

\* int(s), where IsInt(s)
IntOf(s) ==
    IF s[1] = ChDash THEN 0 - Digits(Tail(s))
    ELSE IF s[1] = 43 THEN Digits(Tail(s))
    ELSE Digits(s)

(***************************************************************************)
(* The clock.  datetime.now() is the local wall clock: a later run may     *)
(* read an earlier or an equal time.  Reading i is 2021-09-30, i seconds   *)
(* after 09:59:58, with a fraction of a second on odd readings.            *)
(***************************************************************************)
Now(i) ==
    LET s == 35998 + i
    IN [year |-> 2021, month |-> 9, day |-> 30,
        hour |-> s \div 3600, minute |-> (s \div 60) % 60, second |-> s % 60,
        microsecond |-> (i % 2) * 500000]

Clock == 1..MaxClock

\* other times datetime.now() can return: around a change of the number of
\* digits of the month, the day, the hour and the second, in two years, with
\* and without a fraction of a second
Calendar ==
    [year : {2021, 2022}, month : {9, 10}, day : {9, 10}, hour : {9, 10},
     minute : {59}, second : {9, 10}, microsecond : {0, 500000}]

\* datetime.isoformat()
IsoFormat(dt) ==
    Pad4(dt.year) \o <<ChDash>> \o Pad2(dt.month) \o <<ChDash>> \o Pad2(dt.day)
      \o <<ChT>> \o Pad2(dt.hour) \o <<ChColon>> \o Pad2(dt.minute)
      \o <<ChColon>> \o Pad2(dt.second)
      \o (IF dt.microsecond = 0 THEN <<>> ELSE <<ChDot>> \o Pad6(dt.microsecond))

\* s.split('.')[0]
SplitDot0(s) ==
    IF \E i \in 1..Len(s) : s[i] = ChDot
    THEN LET i == CHOOSE k \in 1..Len(s) :
                     s[k] = ChDot /\ \A j \in 1..(k - 1) : s[j] # ChDot
         IN SubSeq(s, 1, i - 1)
    ELSE s

\* variant: the fraction of the second is not cut off
BACKUP_TIME_Fraction(dt) == IsoFormat(dt) \o <<ChZ>>

\* BACKUP_TIME of a run started at dt
BACKUP_TIME(dt) == SplitDot0(IsoFormat(dt)) \o <<ChZ>>

\* '%s-%s-%s' % (BACKUP_FILE_PREFIX, BACKUP_TIME, BACKUP_LIVE_FILE)
COPY_BACKUP_FILE(dt) ==
    BACKUP_FILE_PREFIX \o <<ChDash>> \o BACKUP_TIME(dt) \o <<ChDash>> \o BACKUP_LIVE_FILE

(***************************************************************************)
(* The environment a run draws its settings from.                          *)
(***************************************************************************)
\* BACKUP_TYPE: the four tiers and an unrecognised value
BackupTypes == Tiers \cup {"yearly"}
\* BACKUP_PRIOR_TYPE: 'monthly' is not accepted as a prior type
PriorTypes == Tiers
\* BACKUP_COUNT = int(...): any integer; -1 stands for the negative ones
Counts == -1..MaxCount
\* BACKUP_PRIOR_COUNT = int(...)
PriorCounts == 0..MaxCount

\* processes; the sequential specification runs one script at a time
Procs == {1}

VARIABLES
    root,        \* os.path.isdir(BACKUP_ROOT_DIR)
    dirs,        \* the tier directories that exist under the root
    files,       \* files[t]: names of the files 'backup*' in <root>/<t>
    live,        \* the live file <root>/hourly/dumpall.sql.gz exists
    run,         \* run[p]: the script process p executes, its position and variables
    created,     \* history: names written by step 4 of an hourly run
    lastHourly,  \* history: how the most recent hourly run ended
    nruns,       \* runs started so far
    cron         \* the settings the scheduled jobs are deployed with

vars == <<root, dirs, files, live, run, created, lastHourly, nruns, cron>>

\* run[p].overlap is history: another script was executing during the run of p

\* a name no file has (OLDEST_PRIOR before it is assigned)
NoName == <<>>

\* no job is deployed: every run is started with settings of its own
NoCron == [count |-> 0, pcount |-> 0]

Idle ==
    [prog |-> "none", pc |-> "idle", start |-> 0,
     type |-> "", ptype |-> "", count |-> 0, pcount |-> 0,
     rc |-> 0, stderr |-> FALSE,
     nprior |-> 0, oldest |-> NoName, copied |-> {},
     pre |-> {}, existing |-> {}, todo |-> <<>>,
     age |-> 0, known |-> <<>>, latest |-> NoName, last |-> NoName,
     from |-> NoName, file |-> NoName, warn |-> "", reason |-> "",
     outcome |-> 0, failed |-> FALSE, crash |-> FALSE, exit |-> -1, msgs |-> <<>>,
     overlap |-> FALSE]

Init ==
    /\ root \in BOOLEAN
    /\ dirs = {}
    /\ files = [t \in Tiers |-> {}]
    /\ live = FALSE
    /\ run = [p \in Procs |-> Idle]
    /\ created = {}
    /\ lastHourly = "none"
    /\ nruns = 0
    /\ cron = NoCron

(***************************************************************************)
(* Leaving a script.                                                       *)
(***************************************************************************)
\* the text write_termination_message(message) writes; message None is code 0, text ""
TerminationMessage(code, text) ==
    IF code # 0 \/ text # ""
    THEN [status |-> "FAILURE", code |-> code, text |-> text]
    ELSE [status |-> "SUCCESS", code |-> 0, text |-> ""]

\* the scripts that write /dev/termination-log
HasTerminationLog(prog) == prog \in {SQL_BACKUP, SQL_RECOVERY}

write_termination_message(r, code, text) ==
    IF HasTerminationLog(r.prog)
    THEN [r EXCEPT !.msgs = Append(@, TerminationMessage(code, text))]
    ELSE r

\* the process has left: what remains of it is its exit code, the termination
\* log and whether it met a failure (its log lines)
Left(r, code) ==
    [Idle EXCEPT !.prog = r.prog, !.pc = "done", !.type = r.type,
                 !.outcome = r.outcome, !.failed = r.failed, !.crash = r.crash,
                 !.msgs = r.msgs, !.exit = code,
                 !.from = r.from, !.warn = r.warn, !.reason = r.reason,
                 !.overlap = r.overlap]

\* sys.exit(code)
sys_exit(r, code) == Left(r, code)

\* error(error_no): the termination message, then sys.exit(0)
error(r, error_no) ==
    sys_exit([write_termination_message(r, error_no, "")
                 EXCEPT !.outcome = error_no, !.failed = TRUE], 0)

\* an exception nothing catches: the traceback (which names the line the
\* script was at), exit code 1, nothing written to the termination log
Unhandled(r) == [r EXCEPT !.pc = "done", !.crash = TRUE, !.exit = 1]

\* the end of the script: 'Success if we get here'
Goodbye(r) == Left(write_termination_message(r, 0, ""), 0)

IsBackup(r) == r.prog = SQL_BACKUP

\* process p becomes r
SetRun(p, r) ==
    /\ run' = [run EXCEPT ![p] = r]
    /\ lastHourly' =
         IF r.pc = "done" /\ IsBackup(r) /\ r.type = B_HOURLY
         THEN (IF r.failed \/ r.crash THEN "failure" ELSE "success")
         ELSE lastHourly

(***************************************************************************)
(* backup.py, steps 0 and 1: the environment and the directories.          *)
(***************************************************************************)
\* where a run goes once its directory exists
Branch(r) == IF r.type = B_HOURLY THEN "s2_exists" ELSE "s5_list"

\* variant: step 0 without the all-or-nothing test of the AWS variables
Step0_NoAwsCheck(r, pgpass, aws) ==
    IF ~pgpass THEN error(r, ERROR_NO_PGPASS)
    ELSE IF r.type \notin {B_HOURLY, B_DAILY, B_WEEKLY, B_MONTHLY}
    THEN error(r, ERROR_UNEXPECTED_BU_TYPE)
    ELSE IF r.ptype \notin {B_HOURLY, B_DAILY, B_WEEKLY}
    THEN error(r, ERROR_UNEXPECTED_PBU_TYPE)
    ELSE [r EXCEPT !.pc = "s1_root"]

\* step 0 for the settings drawn: pgpass is os.path.isfile(PGPASS_FILE),
\* aws the number of AWS variables that are set
Step0(r, pgpass, aws) ==
    IF ~pgpass THEN error(r, ERROR_NO_PGPASS)
    ELSE IF r.type \notin {B_HOURLY, B_DAILY, B_WEEKLY, B_MONTHLY}
    THEN error(r, ERROR_UNEXPECTED_BU_TYPE)
    ELSE IF r.ptype \notin {B_HOURLY, B_DAILY, B_WEEKLY}
    THEN error(r, ERROR_UNEXPECTED_PBU_TYPE)
    ELSE IF aws \notin {0, 3}
    THEN error(r, ERROR_INCOMPLETE_AWS)
    ELSE [r EXCEPT !.pc = "s1_root"]

\* the script is started
StartBackup(p) ==
    /\ run[p].pc \in {"idle", "done"}
    /\ nruns < MaxRuns
    /\ SetRun(p, [Idle EXCEPT !.prog = SQL_BACKUP, !.pc = "s0_env"])
    /\ nruns' = nruns + 1
    /\ UNCHANGED <<root, dirs, files, live, created, cron>>

\* BACKUP_START_TIME = datetime.now() and step 0.  The start time is kept for
\* the hourly run, which names its record after it, and the prior type for
\* the other runs, which copy from it; a run reads neither otherwise.
S0Env(p) ==
    /\ run[p].pc = "s0_env"
    /\ \E pgpass \in BOOLEAN, type \in BackupTypes,
          ptype \in PriorTypes, aws \in 0..3 :
          LET r == Step0([run[p] EXCEPT !.type = type, !.ptype = ptype],
                         pgpass, aws)
          IN IF r.pc = "done" \/ type # B_HOURLY THEN SetRun(p, r)
             ELSE \E i \in Clock :
                     SetRun(p, [r EXCEPT !.start = i, !.ptype = ""])
    /\ UNCHANGED <<root, dirs, files, live, created, nruns, cron>>

S1Root(p) ==
    /\ run[p].pc = "s1_root"
    /\ SetRun(p, IF ~root THEN error(run[p], ERROR_NO_ROOT)
                 ELSE [run[p] EXCEPT !.pc = "s1_dir"])
    /\ UNCHANGED <<root, dirs, files, live, created, nruns, cron>>

S1Dir(p) ==
    /\ run[p].pc = "s1_dir"
    /\ SetRun(p, [run[p] EXCEPT !.pc = IF run[p].type \in dirs THEN Branch(run[p])
                                       ELSE "s1_mkdir"])
    /\ UNCHANGED <<root, dirs, files, live, created, nruns, cron>>

\* os.makedirs(BACKUP_DIR)
S1Mkdir(p) ==
    /\ run[p].pc = "s1_mkdir"
    /\ \E ok \in BOOLEAN :
          IF ok /\ run[p].type \notin dirs
          THEN /\ dirs' = dirs \cup {run[p].type}
               /\ SetRun(p, [run[p] EXCEPT !.pc = Branch(run[p])])
          ELSE /\ dirs' = dirs
               /\ SetRun(p, error(run[p], ERROR_MKDIR))
    /\ UNCHANGED <<root, files, live, created, nruns, cron>>

(***************************************************************************)
(* backup.py, steps 2 to 4: the hourly run.                                *)
(***************************************************************************)
\* os.path.exists(BACKUP): the warning about a left-over live file
S2Exists(p) ==
    /\ run[p].pc = "s2_exists"
    /\ SetRun(p, [run[p] EXCEPT !.pc = "s3_dump"])
    /\ UNCHANGED <<root, dirs, files, live, created, nruns, cron>>

\* the check of the dump's exit code and error stream
DumpFailed(rc, stderr) == rc # 0 \/ stderr

\* the live file after the dump: there if it was there before (the script
\* does not remove a left-over file) or if the command created it
LiveAfterDump(l, wrote) == l \/ wrote

\* subprocess.run(BACKUP_CMD): the exit code, whether anything was written to
\* the error stream, whether the shell created (or truncated) the live file
S3Dump(p) ==
    /\ run[p].pc = "s3_dump"
    /\ \E rc \in {0, 1}, stderr \in BOOLEAN, wrote \in BOOLEAN :
          /\ live' = LiveAfterDump(live, wrote)
          /\ SetRun(p, [run[p] EXCEPT !.rc = rc, !.stderr = stderr,
                          !.pc = IF DumpFailed(rc, stderr) THEN "s3_remove"
                                 ELSE "s3_isfile"])
    /\ UNCHANGED <<root, dirs, files, created, nruns, cron>>

\* what follows the dump for a run r that holds the dump's exit code and error
\* stream, with the live file there (l) or not and an os.remove that works
\* (ok) or not: on failure os.remove(BACKUP), then error(ERROR_BU_ERROR), and
\* error(ERROR_REMOVE) if the removal raises; otherwise os.path.isfile(BACKUP)
Step3Check(r, l, ok) ==
    IF DumpFailed(r.rc, r.stderr)
    THEN (IF ok /\ l THEN [live |-> FALSE, run |-> error(r, ERROR_BU_ERROR)]
          ELSE [live |-> l, run |-> error(r, ERROR_REMOVE)])
    ELSE IF ~l THEN [live |-> l, run |-> error(r, ERROR_NO_BU)]
    ELSE [live |-> l, run |-> [r EXCEPT !.pc = "s4_copy"]]

\* the dump failed: os.remove(BACKUP), then error(ERROR_BU_ERROR)
S3Remove(p) ==
    /\ run[p].pc = "s3_remove"
    /\ \E ok \in BOOLEAN :
          LET res == Step3Check(run[p], live, ok)
          IN /\ live' = res.live
             /\ SetRun(p, res.run)
    /\ UNCHANGED <<root, dirs, files, created, nruns, cron>>

\* os.path.isfile(BACKUP)
S3IsFile(p) ==
    /\ run[p].pc = "s3_isfile"
    /\ SetRun(p, Step3Check(run[p], live, TRUE).run)
    /\ UNCHANGED <<root, dirs, files, live, created, nruns, cron>>

\* what a copy can do: complete, fail leaving nothing, fail leaving a partial file
CopyOutcomes(srcExists, sameFile) ==
    IF srcExists /\ ~sameFile THEN {"ok", "failed", "partial"} ELSE {"failed"}

\* the name of the record an hourly run writes
RecordName(r) == COPY_BACKUP_FILE(Now(r.start))

\* shutil.copyfile(BACKUP, BACKUP_TO)
S4Copy(p) ==
    /\ run[p].pc = "s4_copy"
    /\ \E res \in CopyOutcomes(live, FALSE) :
          LET name == RecordName(run[p])
              r == [run[p] EXCEPT !.pre = files[B_HOURLY]]
          IN /\ files' = IF res = "failed" THEN files
                         ELSE [files EXCEPT ![B_HOURLY] = @ \cup {name}]
             /\ created' = IF res = "failed" THEN created ELSE created \cup {name}
             /\ SetRun(p, IF res = "ok"
                          THEN [r EXCEPT !.copied = {name}, !.pc = "s4_remove"]
                          ELSE error(r, ERROR_BACKUP_COPY))
    /\ UNCHANGED <<root, dirs, live, nruns, cron>>

\* variant: the live file is not removed
LiveAfterRemove_Stays == TRUE

\* the live file after step 4's os.remove(BACKUP) succeeded
LiveAfterRemove == FALSE

\* variant: the record is removed again when the live file cannot be removed
RecordsAfterFailedRemove_RolledBack(fs, name) == [fs EXCEPT ![B_HOURLY] = @ \ {name}]

\* the records after step 4's os.remove(BACKUP) raised: the except clause
\* only reports, the copy stays
RecordsAfterFailedRemove(fs, name) == fs

\* os.remove(BACKUP)
S4Remove(p) ==
    /\ run[p].pc = "s4_remove"
    /\ \E ok \in BOOLEAN :
          IF ok /\ live
          THEN /\ live' = LiveAfterRemove
               /\ files' = files
               /\ SetRun(p, [run[p] EXCEPT !.pc = "s6_list"])
          ELSE /\ live' = live
               /\ files' = RecordsAfterFailedRemove(files, RecordName(run[p]))
               /\ SetRun(p, error(run[p], ERROR_REMOVE_COPY))
    /\ UNCHANGED <<root, dirs, created, nruns, cron>>

\* the names of the files in the directory of tier t, for the records fs and
\* the live file being there or not (lv): BACKUP is
\* <root>/<BACKUP_TYPE>/dumpall.sql.gz of a run whose BACKUP_TYPE is hourly
DirEntries(fs, lv, t) ==
    fs[t] \cup (IF lv /\ t = B_HOURLY THEN {BACKUP_LIVE_FILE} ELSE {})

\* variant: the pattern is '*'
Glob_AnyName(names) == names

\* glob.glob(<directory>/ + BACKUP_FILE_PREFIX + '*') for a directory that
\* holds the files names
Glob(names) == {n \in names : StartsWith(n, BACKUP_FILE_PREFIX)}

(***************************************************************************)
(* backup.py, step 5: the daily, weekly or monthly run.                    *)
(***************************************************************************)
\* variant: '>=' for '=='
PriorIsFull_AtLeast(num_prior, prior_count) == num_prior >= prior_count

\* NUM_PRIOR_BACKUPS == BACKUP_PRIOR_COUNT
PriorIsFull(num_prior, prior_count) == num_prior = prior_count

\* variant: the last of the sorted list
OldestOf_Newest(S) == SortAsc(S)[Cardinality(S)]

\* EXISTING_PRIOR_BACKUPS.sort(); EXISTING_PRIOR_BACKUPS[0]
OldestOf(S) == SortAsc(S)[1]

\* glob of the prior directory and the comparison with BACKUP_PRIOR_COUNT
S5List(p) ==
    /\ run[p].pc = "s5_list"
    /\ \E prior_count \in PriorCounts :
          LET existing_prior == Glob(DirEntries(files, live, run[p].ptype))
              num == Cardinality(existing_prior)
              r == [run[p] EXCEPT !.pcount = prior_count, !.nprior = num,
                                  !.pre = files[run[p].type]]
          IN SetRun(p, IF PriorIsFull(num, prior_count)
                       THEN (IF existing_prior = {}
                             THEN Unhandled(r)   \* IndexError
                             ELSE [r EXCEPT !.oldest = OldestOf(existing_prior),
                                            !.pc = "s5_copy"])
                       ELSE [r EXCEPT !.pc = "s6_list"])
    /\ UNCHANGED <<root, dirs, files, live, created, nruns, cron>>

\* the except clause of the copy: its first print raises TypeError
\* ('%s->%s' % OLDEST_PRIOR), so error(ERROR_REMOVE_OLDEST) is never reached
PromotionCopyHandler(r) == Unhandled([r EXCEPT !.failed = TRUE])

\* variant: the copy is named after this run's start time
PromotedName_Stamped(r) == COPY_BACKUP_FILE(Now(r.start))

\* variant: a copy that does not overwrite, a file of the name already in the
\* tier gets '.1' appended
PromotedName_NoOverwrite(r) ==
    IF r.oldest \in r.pre THEN r.oldest \o <<ChDot, 49>> ELSE r.oldest

\* the name the copy has in BACKUP_DIR: copy2 into a directory keeps the basename
PromotedName(r) == r.oldest

\* variant: the record is moved, not copied
RecordsAfterPromotion_Moved(fs, r) ==
    [t \in Tiers |-> IF t = r.type THEN fs[t] \cup {PromotedName(r)}
                     ELSE IF t = r.ptype THEN fs[t] \ {r.oldest}
                     ELSE fs[t]]

\* the records after the copy of run r wrote its file: the file is added to
\* (or replaced in) the directory of the run's tier
RecordsAfterPromotion(fs, r) ==
    [fs EXCEPT ![r.type] = @ \cup {PromotedName(r)}]

\* shutil.copy2(OLDEST_PRIOR, BACKUP_DIR)
S5Copy(p) ==
    /\ run[p].pc = "s5_copy"
    /\ \E res \in CopyOutcomes(run[p].oldest \in files[run[p].ptype],
                               run[p].ptype = run[p].type) :
          /\ files' = IF res = "failed" THEN files
                      ELSE RecordsAfterPromotion(files, run[p])
          /\ SetRun(p, IF res = "ok"
                       THEN [run[p] EXCEPT !.copied = {PromotedName(run[p])},
                                           !.pc = "s6_list"]
                       ELSE PromotionCopyHandler(run[p]))
    /\ UNCHANGED <<root, dirs, live, created, nruns, cron>>

(***************************************************************************)
(* backup.py, step 6: expiry, and step 7: rsync.                           *)
(***************************************************************************)
\* NUM_TO_DELETE
NumToDelete(existing, count) == Cardinality(existing) - count

\* variant: one file too few is deleted
Expired_OneTooFew(existing, count) ==
    Take(SortAsc(existing), NumToDelete(existing, count) - 1)

\* variant: the newest files are deleted
Expired_Newest(existing, count) ==
    LET sorted == SortAsc(existing)
        n == NumToDelete(existing, count)
    IN IF n <= 0 THEN <<>>
       ELSE IF n >= Len(sorted) THEN sorted
       ELSE SubSeq(sorted, Len(sorted) - n + 1, Len(sorted))

\* EXISTING_BACKUPS.sort(); EXISTING_BACKUPS[:NUM_TO_DELETE]
Expired(existing, count) ==
    IF NumToDelete(existing, count) > 0
    THEN Take(SortAsc(existing), NumToDelete(existing, count))
    ELSE <<>>

S6List(p) ==
    /\ run[p].pc = "s6_list"
    /\ \E count \in Counts :
          LET existing == Glob(DirEntries(files, live, run[p].type))
              todo == Expired(existing, count)
          IN SetRun(p, [run[p] EXCEPT !.count = count, !.existing = existing,
                           !.todo = todo,
                           !.pc = IF todo = <<>> THEN "s6_report" ELSE "s6_remove"])
    /\ UNCHANGED <<root, dirs, files, live, created, nruns, cron>>

\* one os.remove(EXISTING_BACKUP) of the loop
S6Remove(p) ==
    /\ run[p].pc = "s6_remove"
    /\ LET f == Head(run[p].todo)
       IN \E ok \in BOOLEAN :
            IF ok /\ f \in files[run[p].type]
            THEN /\ files' = [files EXCEPT ![run[p].type] = @ \ {f}]
                 /\ SetRun(p, [run[p] EXCEPT !.todo = Tail(@),
                                 !.pc = IF Tail(run[p].todo) = <<>> THEN "s6_report"
                                        ELSE "s6_remove"])
            ELSE /\ files' = files
                 /\ SetRun(p, error(run[p], ERROR_REMOVE_EXPIRED))
    /\ UNCHANGED <<root, dirs, live, created, nruns, cron>>

\* variant: the rsync is started for every tier
Step7Check_EveryTier(r, host, user, pass, path) ==
    IF ~host THEN Goodbye(r)
    ELSE IF ~user THEN error(r, ERROR_MISSING_RSYNC_USER)
    ELSE IF ~pass THEN error(r, ERROR_MISSING_RSYNC_PASS)
    ELSE IF ~path THEN error(r, ERROR_MISSING_RSYNC_PATH)
    ELSE [r EXCEPT !.pc = "s7_keyscan"]

\* BACKUP_TYPE in [B_HOURLY] and RSYNC_HOST, and the three settings: each
\* argument tells whether the variable is set (not empty)
Step7Check(r, host, user, pass, path) ==
    IF ~(r.type = B_HOURLY /\ host) THEN Goodbye(r)
    ELSE IF ~user THEN error(r, ERROR_MISSING_RSYNC_USER)
    ELSE IF ~pass THEN error(r, ERROR_MISSING_RSYNC_PASS)
    ELSE IF ~path THEN error(r, ERROR_MISSING_RSYNC_PATH)
    ELSE [r EXCEPT !.pc = "s7_keyscan"]

\* the listing of the unexpired backups, then the test of step 7; a variable
\* the script does not come to read is not drawn
S7Check(p) ==
    /\ run[p].pc = "s6_report"
    /\ \E host \in BOOLEAN :
          IF ~(run[p].type = B_HOURLY /\ host)
          THEN SetRun(p, Step7Check(run[p], host, TRUE, TRUE, TRUE))
          ELSE \E user \in BOOLEAN :
             IF ~user THEN SetRun(p, Step7Check(run[p], host, user, TRUE, TRUE))
             ELSE \E pass \in BOOLEAN :
                IF ~pass THEN SetRun(p, Step7Check(run[p], host, user, pass, TRUE))
                ELSE \E path \in BOOLEAN :
                        SetRun(p, Step7Check(run[p], host, user, pass, path))
    /\ UNCHANGED <<root, dirs, files, live, created, nruns, cron>>

\* ssh-keyscan: only its exit code is checked
KeyscanResult(r, rc, stderr) ==
    IF rc # 0 THEN error(r, ERROR_KEYSCAN_FAILED) ELSE [r EXCEPT !.pc = "s7_rsync"]

S7Keyscan(p) ==
    /\ run[p].pc = "s7_keyscan"
    /\ \E rc \in {0, 1}, stderr \in BOOLEAN :
          SetRun(p, KeyscanResult(run[p], rc, stderr))
    /\ UNCHANGED <<root, dirs, files, live, created, nruns, cron>>

\* sshpass rsync: the exit code and the error stream are checked
RsyncResult(r, rc, stderr) ==
    IF rc # 0 \/ stderr THEN error(r, ERROR_RSYNC_FAILED) ELSE Goodbye(r)

S7Rsync(p) ==
    /\ run[p].pc = "s7_rsync"
    /\ \E rc \in {0, 1}, stderr \in BOOLEAN :
          SetRun(p, RsyncResult(run[p], rc, stderr))
    /\ UNCHANGED <<root, dirs, files, live, created, nruns, cron>>

BackupStep(p) ==
    \/ StartBackup(p)
    \/ S0Env(p)
    \/ S1Root(p)
    \/ S1Dir(p)
    \/ S1Mkdir(p)
    \/ S2Exists(p)
    \/ S3Dump(p)
    \/ S3Remove(p)
    \/ S3IsFile(p)
    \/ S4Copy(p)
    \/ S4Remove(p)
    \/ S5List(p)
    \/ S5Copy(p)
    \/ S6List(p)
    \/ S6Remove(p)
    \/ S7Check(p)
    \/ S7Keyscan(p)
    \/ S7Rsync(p)

(***************************************************************************)
(* recovery.py (sql-recovery and postgresql-recovery).                     *)
(***************************************************************************)
\* LATEST_BACKUP_MAXIMUM_AGE_H: '0', 'x', '-1', '5'
AgeStrings == {<<48>>, <<120>>, <<ChDash, 49>>, <<53>>}

\* FROM_BACKUP: 'none', 'LATEST', the time of a record, '-2' (in the name of
\* every record), 'dump' (in the name of every record, in lower case)
FromBackups ==
    {<<110, 111, 110, 101>>, B_LATEST, BACKUP_TIME(Now(1)), <<ChDash, 50>>,
     <<100, 117, 109, 112>>}

\* the script is started
StartRecovery(p) ==
    /\ run[p].pc \in {"idle", "done"}
    /\ nruns < MaxRuns
    /\ \E prog \in {SQL_RECOVERY, PG_RECOVERY} :
          SetRun(p, [Idle EXCEPT !.prog = prog, !.pc = "r0_env"])
    /\ nruns' = nruns + 1
    /\ UNCHANGED <<root, dirs, files, live, created, cron>>

\* LATEST_BACKUP_MAXIMUM_AGE_H of the string str, where the conversion does
\* not raise: '0' is not converted, a negative value becomes 0
MaximumAgeH(str) == IF str = <<48>> \/ IntOf(str) < 0 THEN 0 ELSE IntOf(str)

\* the conversion of LATEST_BACKUP_MAXIMUM_AGE_H (sql-recovery only)
R0Env(p) ==
    /\ run[p].pc = "r0_env"
    /\ IF run[p].prog = SQL_RECOVERY
       THEN \E str \in AgeStrings :
               SetRun(p, IF str # <<48>> /\ ~IsInt(str)
                         THEN error(run[p], R_ERROR_AGE_NOT_INT)
                         ELSE [run[p] EXCEPT !.age = MaximumAgeH(str),
                                             !.pc = "r1_root"])
       ELSE SetRun(p, [run[p] EXCEPT !.pc = "r1_root"])
    /\ UNCHANGED <<root, dirs, files, live, created, nruns, cron>>

\* step 1: os.path.isdir(BACKUP_ROOT_DIR)
R1Root(p) ==
    /\ run[p].pc = "r1_root"
    /\ SetRun(p, IF root THEN [run[p] EXCEPT !.pc = "r2_scan"]
                 ELSE IF run[p].prog = SQL_RECOVERY
                 THEN error(run[p], R_ERROR_NO_ROOT)
                 ELSE sys_exit([run[p] EXCEPT !.failed = TRUE], 3))
    /\ UNCHANGED <<root, dirs, files, live, created, nruns, cron>>

RECURSIVE Orders(_)
\* the orders a directory listing can return the members of S in
Orders(S) ==
    IF S = {} THEN {<<>>}
    ELSE UNION {{<<x>> \o o : o \in Orders(S \ {x})} : x \in S}

RECURSIVE GlobIn(_)
\* the results of the glob for the directories taken in the order ds
GlobIn(ds) ==
    IF ds = <<>> THEN {<<>>}
    ELSE {[i \in 1..Len(o) |-> [dir |-> Head(ds), name |-> o[i]]] \o rest :
             o \in Orders(Glob(DirEntries(files, live, Head(ds)))),
             rest \in GlobIn(Tail(ds))}

\* glob.glob(<root>/**/backup*): '**' stands for one directory level, and
\* neither the directories nor the files of one come in a defined order
Globs ==
    UNION {GlobIn(ds) :
             ds \in Orders({t \in Tiers : Glob(DirEntries(files, live, t)) # {}})}

RECURSIVE KnownBackups_LastWins(_)
\* variant: a later path of the same file name replaces the earlier one
KnownBackups_LastWins(backups) ==
    IF backups = <<>> THEN <<>>
    ELSE LET rest == KnownBackups_LastWins(Tail(backups))
             b == Head(backups)
         IN IF \E i \in 1..Len(rest) : rest[i].name = b.name THEN rest
            ELSE <<b>> \o rest

RECURSIVE KnownBackups(_)
\* KNOWN_BACKUPS, in insertion order: the first path of each file name
KnownBackups(backups) ==
    IF backups = <<>> THEN <<>>
    ELSE LET front == KnownBackups(SubSeq(backups, 1, Len(backups) - 1))
             b == backups[Len(backups)]
         IN IF \E i \in 1..Len(front) : front[i].name = b.name THEN front
            ELSE Append(front, b)

\* variant: the first of the names in ascending order
LatestBackup_Oldest(known) ==
    IF known = <<>> THEN NoName
    ELSE LET names == {known[i].name : i \in 1..Len(known)}
         IN CHOOSE n \in names : \A m \in names \ {n} : StrLess(n, m)

\* sorted(KNOWN_BACKUPS, reverse=True)[0], or None
LatestBackup(known) ==
    IF known = <<>> THEN NoName
    ELSE LET names == {known[i].name : i \in 1..Len(known)}
         IN CHOOSE n \in names : \A m \in names \ {n} : StrLess(m, n)

\* BACKUP_DATETIME_RE matches s at position i
DateTimeAt(s, i) ==
    /\ i + 21 <= Len(s)
    /\ \A k \in 0..21 :
          LET c == s[i + k]
          IN IF k \in {0, 5, 8, 21} THEN c = ChDash
             ELSE IF k = 11 THEN c = ChT
             ELSE IF k \in {14, 17} THEN c = ChColon
             ELSE IF k = 20 THEN c = ChZ
             ELSE c \in 48..57

\* BACKUP_DATETIME_RE.search(s)
HasDateTime(s) == \E i \in 1..Len(s) : DateTimeAt(s, i)

\* days from 1970-01-01 to the date y-m-d (proleptic Gregorian calendar)
DaysFromCivil(y, m, d) ==
    LET yy == IF m <= 2 THEN y - 1 ELSE y
        era == yy \div 400
        yoe == yy - era * 400
        mp == (m + 9) % 12
        doy == (153 * mp + 2) \div 5 + d - 1
        doe == yoe * 365 + yoe \div 4 - yoe \div 100 + doy
    IN era * 146097 + doe - 719468

\* the seconds from 1970-01-01T00:00:00 to the second of dt
SecondsOf(dt) ==
    DaysFromCivil(dt.year, dt.month, dt.day) * 86400
      + dt.hour * 3600 + dt.minute * 60 + dt.second

\* parser.parse(found.groups(1)[0]): the time written in s after the dash of
\* the first match of BACKUP_DATETIME_RE
LatestDateTime(s) ==
    LET i == CHOOSE k \in 1..Len(s) :
                 DateTimeAt(s, k) /\ \A j \in 1..(k - 1) : ~DateTimeAt(s, j)
    IN [year |-> Num4(s, i + 1), month |-> Num2(s, i + 6), day |-> Num2(s, i + 9),
        hour |-> Num2(s, i + 12), minute |-> Num2(s, i + 15),
        second |-> Num2(s, i + 18), microsecond |-> 0]

\* variant: the age is rounded to the nearest hour
LatestAgeH_Rounded(now, latest) ==
    (SecondsOf(now) - SecondsOf(LatestDateTime(latest)) + 1800) \div 3600

\* latest_age_h = int(latest_age.days * 24 + latest_age.seconds / 3600)
LatestAgeH(now, latest) ==
    LET t == SecondsOf(now) - SecondsOf(LatestDateTime(latest))
    IN IF t >= 0 THEN t \div 3600 ELSE 0 - ((0 - t) \div 3600)

\* datetime.now(timezone.utc) of a recovery: the time of reading 1, or 5 hours
\* 59 minutes or 6 hours after it
RecoveryNows ==
    {Now(1), [Now(1) EXCEPT !.hour = @ + 6, !.minute = @ - 1],
     [Now(1) EXCEPT !.hour = @ + 6]}

\* variant: the disabled calls error(ERROR_LATEST_TOO_OLD) and
\* error(ERROR_NO_LATEST) are made
AgeCheck_Enabled(r, now) ==
    IF r.age = 0 THEN r
    ELSE IF r.latest = NoName THEN error(r, R_ERROR_NO_LATEST)
    ELSE IF ~HasDateTime(r.latest) THEN error(r, R_ERROR_LATEST_HAD_NO_DATETIME)
    ELSE IF LatestAgeH(now, r.latest) > r.age THEN error(r, R_ERROR_LATEST_TOO_OLD)
    ELSE r

\* the check of the latest backup's age, for a run r that has scanned: a
\* backup that is too old, or none at all, is only logged
AgeCheck(r, now) ==
    IF r.age = 0 THEN r
    ELSE IF r.latest = NoName THEN [r EXCEPT !.warn = "no latest"]
    ELSE IF ~HasDateTime(r.latest) THEN error(r, R_ERROR_LATEST_HAD_NO_DATETIME)
    ELSE IF LatestAgeH(now, r.latest) > r.age THEN [r EXCEPT !.warn = "too old"]
    ELSE r

\* the run after step 2, for the glob result backups and the time now
ScanResult(r, backups, now) ==
    LET known == KnownBackups(backups)
        scanned == [r EXCEPT !.known = known, !.latest = LatestBackup(known),
                             !.last = IF backups = <<>> THEN NoName
                                      ELSE backups[Len(backups)]]
        checked == AgeCheck(scanned, now)
    IN IF checked.pc = "done" THEN checked
       ELSE [checked EXCEPT !.age = 0, !.pc = "r3_select"]

\* step 2: the scan of the backups and the check of the latest one's age
R2Scan(p) ==
    /\ run[p].pc = "r2_scan"
    /\ \E backups \in Globs :
          IF run[p].age = 0
          THEN SetRun(p, ScanResult(run[p], backups, Now(1)))
          ELSE \E now \in RecoveryNows : SetRun(p, ScanResult(run[p], backups, now))
    /\ UNCHANGED <<root, dirs, files, live, created, nruns, cron>>

\* the exits of recovery.py that report a failure in words: message, sys.exit(0)
Leave(r, text) ==
    sys_exit([write_termination_message(r, 0, text)
                 EXCEPT !.failed = TRUE, !.reason = text], 0)

\* variant: the search returns the latest backup
FirstMatch_Latest(known, from) ==
    IF known = <<>> THEN NoName
    ELSE known[CHOOSE i \in 1..Len(known) : known[i].name = LatestBackup(known)]

\* the search of the known backups for FROM_BACKUP
FirstMatch(known, from) ==
    LET hits == {i \in 1..Len(known) : Contains(known[i].name, from)}
    IN IF hits = {} THEN NoName
       ELSE known[CHOOSE i \in hits : \A j \in hits : i <= j]

\* BACKUP_FILE
BackupFile(known, latest, from) ==
    IF from = B_LATEST
    THEN known[CHOOSE i \in 1..Len(known) : known[i].name = latest]
    ELSE FirstMatch(known, from)

\* variant: NONE is a query like any other
NothingToDo_Never(from) == FALSE

\* step 3: FROM_BACKUP in [B_NONE]
NothingToDo(from) == from = B_NONE

\* the run after steps 3 and 4, for the FROM_BACKUP of the environment
SelectResult(r0, raw) ==
    LET from == Upper(raw)
        r == [r0 EXCEPT !.from = from, !.known = <<>>]
    IN IF NothingToDo(from) THEN Goodbye(r)
       ELSE IF r0.latest = NoName THEN Leave(r, "No Backups")
       ELSE LET file == BackupFile(r0.known, r0.latest, from)
            IN IF file = NoName THEN Leave(r, "Backup not found")
               ELSE [r EXCEPT !.file = file, !.pc = "r4_unpack"]

\* steps 3 and 4: FROM_BACKUP and the choice of the backup file
R3Select(p) ==
    /\ run[p].pc = "r3_select"
    /\ \E raw \in FromBackups : SetRun(p, SelectResult(run[p], raw))
    /\ UNCHANGED <<root, dirs, files, live, created, nruns, cron>>

\* subprocess.run(UNPACK_CMD) and the check of its exit code and error stream
UnpackResult(r, rc, stderr) ==
    [r EXCEPT !.pc = IF rc # 0 \/ stderr THEN "r4_remove" ELSE "r4_restore"]

R4Unpack(p) ==
    /\ run[p].pc = "r4_unpack"
    /\ \E rc \in {0, 1}, stderr \in BOOLEAN :
          SetRun(p, UnpackResult(run[p], rc, stderr))
    /\ UNCHANGED <<root, dirs, files, live, created, nruns, cron>>

\* the unpack failed: os.remove(BACKUP), where BACKUP is what the loop of
\* step 2 left in it, the last path of the glob
R4Remove(p) ==
    /\ run[p].pc = "r4_remove"
    /\ LET b == run[p].last
       IN \E ok \in BOOLEAN :
            IF ok /\ b.name \in files[b.dir]
            THEN /\ files' = [files EXCEPT ![b.dir] = @ \ {b.name}]
                 /\ SetRun(p, Leave(run[p], "Unpack failed"))
            ELSE /\ files' = files
                 /\ SetRun(p, Unhandled([run[p] EXCEPT !.failed = TRUE]))
    /\ UNCHANGED <<root, dirs, live, created, nruns, cron>>

\* variant: lines on the error stream make the recovery fail
RestoreResult_Strict(r, rc, stderr) ==
    IF rc # 0 \/ stderr THEN Leave(r, "Recovery failed")
    ELSE IF r.prog = SQL_RECOVERY THEN [r EXCEPT !.pc = "r5_count"]
    ELSE sys_exit(r, 0)

\* subprocess.run(RECOVERY_CMD): lines on the error stream are a warning, only
\* the exit code makes the recovery fail
RestoreResult(r, rc, stderr) ==
    IF rc # 0 THEN Leave(r, "Recovery failed")
    ELSE IF r.prog = SQL_RECOVERY THEN [r EXCEPT !.pc = "r5_count"]
    ELSE sys_exit(r, 0)

R4Restore(p) ==
    /\ run[p].pc = "r4_restore"
    /\ \E rc \in {0, 1}, stderr \in BOOLEAN :
          SetRun(p, RestoreResult(run[p], rc, stderr))
    /\ UNCHANGED <<root, dirs, files, live, created, nruns, cron>>

\* step 5: DATABASE_EXPECTED_COUNT and the exit code of CHECK_CMD
R5Count(p) ==
    /\ run[p].pc = "r5_count"
    /\ \E expected \in BOOLEAN, rc \in {0, 1} :
          SetRun(p, IF expected /\ rc # 0 THEN Leave(run[p], "Count failed")
                    ELSE Goodbye(run[p]))
    /\ UNCHANGED <<root, dirs, files, live, created, nruns, cron>>

RecoveryStep(p) ==
    \/ StartRecovery(p)
    \/ R0Env(p)
    \/ R1Root(p)
    \/ R2Scan(p)
    \/ R3Select(p)
    \/ R4Unpack(p)
    \/ R4Remove(p)
    \/ R4Restore(p)
    \/ R5Count(p)

Next == \E p \in Procs : BackupStep(p) \/ RecoveryStep(p)

Spec == Init /\ [][Next]_vars

(***************************************************************************)
(* The scheduled deployment: an hourly job and a daily job whose prior     *)
(* tier is the hourly one, started again and again, one run at a time,     *)
(* every run meeting no failure.  The hourly job keeps its BACKUP_COUNT    *)
(* and the daily job its BACKUP_PRIOR_COUNT from run to run.               *)
(***************************************************************************)
\* BACKUP_COUNT of the hourly job and BACKUP_PRIOR_COUNT of the daily job
CronSettings ==
    {c \in [count : 1..MaxCount, pcount : 1..MaxCount] : c.count >= c.pcount}

CronInit ==
    /\ root = TRUE
    /\ dirs = {}
    /\ files = [t \in Tiers |-> {}]
    /\ live = FALSE
    /\ run = [p \in Procs |-> Idle]
    /\ created = {}
    /\ lastHourly = "none"
    /\ nruns = 0
    /\ cron \in CronSettings

\* the job's next run is started (the schedule never ends)
CronStart(p) ==
    /\ run[p].pc \in {"idle", "done"}
    /\ SetRun(p, [Idle EXCEPT !.prog = SQL_BACKUP, !.pc = "s0_env"])
    /\ UNCHANGED <<root, dirs, files, live, created, nruns, cron>>

\* r is at a place a run of one of the two jobs, meeting no failure, can be at
OnSchedule(r) ==
    /\ ~r.failed /\ ~r.crash
    /\ r.pc # "s3_remove"
    /\ r.pc = "s3_isfile" => live
    /\ r.type \in {"", B_HOURLY, B_DAILY}
    /\ r.type = B_DAILY /\ r.pc # "done" => r.ptype = B_HOURLY
    /\ r.type = B_DAILY /\ r.pc \in {"s5_copy", "s6_list"} => r.pcount = cron.pcount
    /\ r.type = B_HOURLY /\ r.pc \in {"s6_remove", "s6_report"} => r.count = cron.count

CronStep(p) ==
    \/ CronStart(p) /\ OnSchedule(run[p])'
    \/ S0Env(p) /\ OnSchedule(run[p])'
    \/ S1Root(p) /\ OnSchedule(run[p])'
    \/ S1Dir(p) /\ OnSchedule(run[p])'
    \/ S1Mkdir(p) /\ OnSchedule(run[p])'
    \/ S2Exists(p) /\ OnSchedule(run[p])'
    \/ S3Dump(p) /\ OnSchedule(run[p])'
    \/ S3IsFile(p) /\ OnSchedule(run[p])'
    \/ S4Copy(p) /\ OnSchedule(run[p])'
    \/ S4Remove(p) /\ OnSchedule(run[p])'
    \/ S5List(p) /\ OnSchedule(run[p])'
    \/ S5Copy(p) /\ OnSchedule(run[p])'
    \/ S6List(p) /\ OnSchedule(run[p])'
    \/ S6Remove(p) /\ OnSchedule(run[p])'
    \/ S7Check(p) /\ OnSchedule(run[p])'
    \/ S7Keyscan(p) /\ OnSchedule(run[p])'
    \/ S7Rsync(p) /\ OnSchedule(run[p])'

CronNext == \E p \in Procs : CronStep(p)

\* an hourly run starts at a time no record of the tier is named after
HourlyRunStarts(p) ==
    /\ run[p].pc = "s0_env"
    /\ S0Env(p)
    /\ OnSchedule(run[p])'
    /\ run'[p].type = B_HOURLY
    /\ RecordName(run'[p]) \notin files[B_HOURLY]

\* a daily run starts
DailyRunStarts(p) ==
    /\ run[p].pc = "s0_env"
    /\ S0Env(p)
    /\ OnSchedule(run[p])'
    /\ run'[p].type = B_DAILY

\* every run goes on to its end, and runs of both jobs keep recurring
CronSpec ==
    /\ CronInit
    /\ [][CronNext]_vars
    /\ \A p \in Procs : /\ WF_vars(CronStep(p))
                        /\ SF_vars(HourlyRunStarts(p))
                        /\ SF_vars(DailyRunStarts(p))

(***************************************************************************)
(* Two runs of one tier at the same time: two processes execute backup.py  *)
(* with the same settings, their file operations interleaved in any order. *)
(* No operation meets a fault of its own: an operation fails only if the   *)
(* volume, as the other run left it, makes it fail.                        *)
(***************************************************************************)
Procs2 == {1, 2}

\* the records of the k earliest times: what earlier hourly runs left
Earliest(k) == {COPY_BACKUP_FILE(Now(i)) : i \in 0..(k - 1)}

ConcInit ==
    /\ root = TRUE
    /\ dirs \in {{}, {B_HOURLY, B_DAILY}}
    /\ files \in {[t \in Tiers |-> IF t = B_HOURLY THEN Earliest(k) ELSE {}] :
                    k \in 0..MaxClock}
    /\ live = FALSE
    /\ run = [p \in Procs2 |-> Idle]
    /\ created = {}
    /\ lastHourly = "none"
    /\ nruns = 0
    /\ cron \in CronSettings

Running(r) == r.pc \notin {"idle", "done"}

\* process p starts its one run
ConcStart(p) ==
    /\ run[p].pc = "idle"
    /\ LET now == \E q \in Procs2 \ {p} : Running(run[q])
       IN run' = [q \in Procs2 |->
                    IF q = p THEN [Idle EXCEPT !.prog = SQL_BACKUP, !.pc = "s0_env",
                                               !.overlap = now]
                    ELSE IF Running(run[q]) THEN [run[q] EXCEPT !.overlap = TRUE]
                    ELSE run[q]]
    /\ nruns' = nruns + 1
    /\ UNCHANGED <<root, dirs, files, live, created, lastHourly, cron>>

\* the step p takes meets no fault of its own, and both runs are runs of the
\* same job (hourly, or daily with the hourly tier as its prior tier, without
\* rsync) with the deployment's BACKUP_COUNT and BACKUP_PRIOR_COUNT
NoFault(p) ==
    LET r == run[p]
        n == run'[p]
    IN /\ r.pc = "s0_env" =>
            /\ n.pc = "s1_root"
            /\ n.type \in {B_HOURLY, B_DAILY}
            /\ n.type = B_DAILY => n.ptype = B_HOURLY
            /\ \A q \in Procs2 : run[q].type \in {"", n.type}
       /\ r.pc = "s1_mkdir" /\ r.type \notin dirs => ~n.failed
       /\ r.pc = "s3_dump" => n.pc = "s3_isfile" /\ live'
       /\ r.pc = "s4_copy" /\ live => n.pc = "s4_remove"
       /\ r.pc = "s4_remove" /\ live => ~n.failed
       /\ r.pc = "s5_list" => n.pcount = cron.pcount
       /\ r.pc = "s5_copy" /\ r.oldest \in files[r.ptype] => ~n.failed
       /\ r.pc = "s6_list" => n.count = cron.count
       /\ r.pc = "s6_remove" /\ Head(r.todo) \in files[r.type] => ~n.failed
       /\ r.pc = "s6_report" => ~n.failed

ConcStep(p) ==
    \/ ConcStart(p)
    \/ S0Env(p) /\ NoFault(p)
    \/ S1Root(p) /\ NoFault(p)
    \/ S1Dir(p) /\ NoFault(p)
    \/ S1Mkdir(p) /\ NoFault(p)
    \/ S2Exists(p) /\ NoFault(p)
    \/ S3Dump(p) /\ NoFault(p)
    \/ S3IsFile(p) /\ NoFault(p)
    \/ S4Copy(p) /\ NoFault(p)
    \/ S4Remove(p) /\ NoFault(p)
    \/ S5List(p) /\ NoFault(p)
    \/ S5Copy(p) /\ NoFault(p)
    \/ S6List(p) /\ NoFault(p)
    \/ S6Remove(p) /\ NoFault(p)
    \/ S7Check(p) /\ NoFault(p)

ConcNext == \E p \in Procs2 : ConcStep(p)

ConcSpec == ConcInit /\ [][ConcNext]_vars

(***************************************************************************)
(* The daily job run twice in succession: two runs of backup.py for the    *)
(* daily tier with the hourly tier as its prior tier, the second started   *)
(* when the first is over, both with the same BACKUP_COUNT and             *)
(* BACKUP_PRIOR_COUNT (any values), over any contents of the two tiers.    *)
(* No file operation meets a fault of its own.                             *)
(***************************************************************************)
\* the names of the files 'backup*' of all tier directories
AllFiles == UNION {files[t] : t \in Tiers}

\* the record names of the clock readings 0..MaxClock
Stamps == {COPY_BACKUP_FILE(Now(i)) : i \in 0..MaxClock}

TwiceInit ==
    /\ root = TRUE
    /\ files \in {[t \in Tiers |-> IF t = B_HOURLY THEN h
                                   ELSE IF t = B_DAILY THEN d ELSE {}] :
                    h \in SUBSET Stamps, d \in SUBSET Stamps}
    /\ dirs \in {{B_HOURLY}, {B_HOURLY, B_DAILY}}
    /\ files[B_DAILY] # {} => B_DAILY \in dirs
    /\ live = FALSE
    /\ run = [p \in Procs2 |-> Idle]
    /\ created = {}
    /\ lastHourly = "none"
    /\ nruns = 0
    /\ cron \in [count : Counts, pcount : PriorCounts]

\* a run is started when no run is executing
TwiceStart(p) ==
    /\ \A q \in Procs2 : ~Running(run[q])
    /\ ConcStart(p)

\* the run of p is a run of the daily job
DailyJob(p) == run'[p].type \in {"", B_DAILY}

TwiceStep(p) ==
    \/ TwiceStart(p)
    \/ S0Env(p) /\ NoFault(p) /\ DailyJob(p)
    \/ S1Root(p) /\ NoFault(p)
    \/ S1Dir(p) /\ NoFault(p)
    \/ S1Mkdir(p) /\ NoFault(p)
    \/ S5List(p) /\ NoFault(p)
    \/ S5Copy(p) /\ NoFault(p)
    \/ S6List(p) /\ NoFault(p)
    \/ S6Remove(p) /\ NoFault(p)
    \/ S7Check(p) /\ NoFault(p)

TwiceNext == \E p \in Procs2 : TwiceStep(p)

TwiceSpec == TwiceInit /\ [][TwiceNext]_vars

(***************************************************************************)
(* Runs of two tiers at the same time: process 1 executes the hourly job,  *)
(* process 2 the daily job whose prior tier is the hourly one, one run     *)
(* each, their file operations interleaved in any order.  No operation     *)
(* meets a fault of its own.                                               *)
(***************************************************************************)
\* the job process p executes
JobOf(p) == IF p = 1 THEN B_HOURLY ELSE B_DAILY

\* step 0 of p reads the settings of its job
ReadsJob(p) ==
    /\ run'[p].pc = "s1_root"
    /\ run'[p].type = JobOf(p)
    /\ run'[p].type = B_DAILY => run'[p].ptype = B_HOURLY

TiersStep(p) ==
    \/ ConcStart(p)
    \/ S0Env(p) /\ ReadsJob(p)
    \/ S1Root(p) /\ NoFault(p)
    \/ S1Dir(p) /\ NoFault(p)
    \/ S1Mkdir(p) /\ NoFault(p)
    \/ S2Exists(p) /\ NoFault(p)
    \/ S3Dump(p) /\ NoFault(p)
    \/ S3IsFile(p) /\ NoFault(p)
    \/ S4Copy(p) /\ NoFault(p)
    \/ S4Remove(p) /\ NoFault(p)
    \/ S5List(p) /\ NoFault(p)
    \/ S5Copy(p) /\ NoFault(p)
    \/ S6List(p) /\ NoFault(p)
    \/ S6Remove(p) /\ NoFault(p)
    \/ S7Check(p) /\ NoFault(p)

TiersNext == \E p \in Procs2 : TiersStep(p)

TiersSpec == ConcInit /\ [][TiersNext]_vars

(***************************************************************************)
(* The chain hourly -> daily -> weekly -> monthly: runs of the four jobs,  *)
(* one at a time in any order, from empty directories, every run ending    *)
(* without a failure, each with any BACKUP_COUNT and BACKUP_PRIOR_COUNT,   *)
(* and every hourly run starting at a later time than the hourly runs      *)
(* before it.                                                              *)
(***************************************************************************)
ChainInit ==
    /\ root = TRUE
    /\ dirs = {}
    /\ files = [t \in Tiers |-> {}]
    /\ live = FALSE
    /\ run = [p \in Procs |-> Idle]
    /\ created = {}
    /\ lastHourly = "none"
    /\ nruns = 0
    /\ cron = NoCron

\* the tier a job of tier t copies from
PriorOf(t) ==
    IF t = B_MONTHLY THEN B_WEEKLY ELSE IF t = B_WEEKLY THEN B_DAILY ELSE B_HOURLY

\* the step of p is a step of a run that meets no failure: the settings are
\* those of one of the four jobs, the hourly run's start time is later than
\* the time of every record written so far, and the dump writes its file
InChain(p) ==
    LET r == run[p]
        n == run'[p]
    IN /\ ~n.failed /\ ~n.crash
       /\ r.pc = "s0_env" =>
             /\ n.type \in Tiers
             /\ n.type # B_HOURLY => n.ptype = PriorOf(n.type)
             /\ n.type = B_HOURLY =>
                   \A i \in Clock :
                      COPY_BACKUP_FILE(Now(i)) \in created => i < n.start
       /\ r.pc = "s3_dump" => n.pc = "s3_isfile" /\ live'

ChainStep(p) ==
    \/ CronStart(p)
    \/ S0Env(p) /\ InChain(p)
    \/ S1Root(p) /\ InChain(p)
    \/ S1Dir(p) /\ InChain(p)
    \/ S1Mkdir(p) /\ InChain(p)
    \/ S2Exists(p) /\ InChain(p)
    \/ S3Dump(p) /\ InChain(p)
    \/ S3IsFile(p) /\ InChain(p)
    \/ S4Copy(p) /\ InChain(p)
    \/ S4Remove(p) /\ InChain(p)
    \/ S5List(p) /\ InChain(p)
    \/ S5Copy(p) /\ InChain(p)
    \/ S6List(p) /\ InChain(p)
    \/ S6Remove(p) /\ InChain(p)
    \/ S7Check(p) /\ InChain(p)
    \/ S7Keyscan(p) /\ InChain(p)
    \/ S7Rsync(p) /\ InChain(p)

ChainNext == \E p \in Procs : ChainStep(p)

ChainSpec == ChainInit /\ [][ChainNext]_vars

(***************************************************************************)
(* An hourly run, then a recovery: process 1 executes the hourly job with  *)
(* the deployment's BACKUP_COUNT (at least 1), starting later than         *)
(* the time of every record of the volume and meeting no fault; process 2  *)
(* executes one of the recovery scripts, with any settings and any faults. *)
(***************************************************************************)
\* the volume before the two: the records of earlier hourly runs, the
\* earliest one promoted to the daily tier or not
RestoreInit ==
    /\ root = TRUE
    /\ dirs = {B_HOURLY, B_DAILY}
    /\ files \in {[t \in Tiers |-> IF t = B_HOURLY THEN Earliest(k)
                                   ELSE IF t = B_DAILY THEN d ELSE {}] :
                    k \in 0..MaxClock, d \in {{}, Earliest(1)}}
    /\ live = FALSE
    /\ run = [p \in Procs2 |-> Idle]
    /\ created = {}
    /\ lastHourly = "none"
    /\ nruns = 0
    /\ cron \in CronSettings

\* step 0 of the hourly run reads its settings at a time later than the
\* time every record of the volume is named after
StartsNewest(p) ==
    /\ run'[p].pc = "s1_root"
    /\ run'[p].type = B_HOURLY
    /\ \A f \in AllFiles : StrLess(f, RecordName(run'[p]))

\* the recovery is started when the hourly run is over
RestoreStart(p) ==
    /\ p = 2
    /\ run[p].pc = "idle"
    /\ run[1].pc = "done"
    /\ StartRecovery(p)

RestoreStep(p) ==
    \/ p = 1 /\ TwiceStart(p)
    \/ S0Env(p) /\ StartsNewest(p)
    \/ S1Root(p) /\ NoFault(p)
    \/ S1Dir(p) /\ NoFault(p)
    \/ S2Exists(p) /\ NoFault(p)
    \/ S3Dump(p) /\ NoFault(p)
    \/ S3IsFile(p) /\ NoFault(p)
    \/ S4Copy(p) /\ NoFault(p)
    \/ S4Remove(p) /\ NoFault(p)
    \/ S6List(p) /\ NoFault(p)
    \/ S6Remove(p) /\ NoFault(p)
    \/ S7Check(p) /\ NoFault(p)
    \/ RestoreStart(p)
    \/ R0Env(p)
    \/ R1Root(p)
    \/ R2Scan(p)
    \/ R3Select(p)
    \/ R4Unpack(p)
    \/ R4Remove(p)
    \/ R4Restore(p)
    \/ R5Count(p)

RestoreNext == \E p \in Procs2 : RestoreStep(p)

RestoreSpec == RestoreInit /\ [][RestoreNext]_vars

(***************************************************************************)
(* An hourly run with another script beside it: a second hourly run, a     *)
(* daily run whose prior tier is the hourly one, or a recovery as far as    *)
(* its scan of the backups.  The live file of the hourly run is in the     *)
(* hourly directory while the other script lists it.                       *)
(***************************************************************************)

\* the job the run of p has read: process 1 the hourly one, process 2 the
\* hourly or the daily one
LiveJob(p) ==
    /\ run'[p].pc = "s1_root"
    /\ run'[p].type \in (IF p = 1 THEN {B_HOURLY} ELSE {B_HOURLY, B_DAILY})
    /\ run'[p].type = B_DAILY => run'[p].ptype = B_HOURLY

LiveStep(p) ==
    \/ ConcStart(p)
    \/ p = 2 /\ run[p].pc = "idle" /\ StartRecovery(p)
    \/ S0Env(p) /\ LiveJob(p)
    \/ S1Root(p) /\ NoFault(p)
    \/ S1Dir(p) /\ NoFault(p)
    \/ S1Mkdir(p) /\ NoFault(p)
    \/ S2Exists(p) /\ NoFault(p)
    \/ S3Dump(p) /\ NoFault(p)
    \/ S3IsFile(p) /\ NoFault(p)
    \/ S4Copy(p) /\ NoFault(p)
    \/ S4Remove(p) /\ NoFault(p)
    \/ S5List(p) /\ NoFault(p)
    \/ S5Copy(p) /\ NoFault(p)
    \/ S6List(p) /\ NoFault(p)
    \/ S6Remove(p) /\ NoFault(p)
    \/ S7Check(p) /\ NoFault(p)
    \/ R0Env(p)
    \/ R1Root(p)
    \/ R2Scan(p)

LiveNext == \E p \in Procs2 : LiveStep(p)

LiveSpec == ConcInit /\ [][LiveNext]_vars

(***************************************************************************)
(* Properties.                                                             *)
(***************************************************************************)
\* p runs (or has run) the backup of a tier other than hourly
NonHourly(p) == run[p].prog = SQL_BACKUP /\ run[p].type \in Tiers \ {B_HOURLY}

Hourly(p) == run[p].prog = SQL_BACKUP /\ run[p].type = B_HOURLY

\* step 5 of p is over: the run is about to expire, or an exception ended it
Step5Over(p) ==
    /\ NonHourly(p)
    /\ \/ run[p].pc = "s6_list"
       \/ run[p].pc = "done" /\ run[p].crash

\* the k smallest names of S, by comparison alone
Smallest(S, k) == {f \in S : Cardinality({g \in S : StrLess(g, f)}) < k}

\* name is 'backup-YYYY-MM-DDTHH:MM:SSZ-dumpall.sql.gz' for the second of dt
NameCarries(name, dt) ==
    /\ Len(name) = 42
    /\ StartsWith(name, BACKUP_FILE_PREFIX)
    /\ SubSeq(name, 29, 42) = BACKUP_LIVE_FILE
    /\ name[7] = ChDash /\ name[12] = ChDash /\ name[15] = ChDash /\ name[28] = ChDash
    /\ name[18] = ChT /\ name[21] = ChColon /\ name[24] = ChColon /\ name[27] = ChZ
    /\ Num4(name, 8) = dt.year /\ Num2(name, 13) = dt.month /\ Num2(name, 16) = dt.day
    /\ Num2(name, 19) = dt.hour /\ Num2(name, 22) = dt.minute
    /\ Num2(name, 25) = dt.second

BetweenRuns == \A p \in Procs : run[p].pc \in {"idle", "done"}

C2_Original ==
    \A p \in Procs :
        (run[p].prog = SQL_BACKUP /\ run[p].pc = "s6_report")
            => Cardinality(files[run[p].type]) <= run[p].count

\* C2, amended: after an expiry without a deletion failure the tier holds at
\* most BACKUP_COUNT records, and none when BACKUP_COUNT is negative.
C2_ExpiryBound ==
    \A p \in Procs :
        (run[p].prog = SQL_BACKUP /\ run[p].pc = "s6_report")
            => Cardinality(files[run[p].type])
                  <= (IF run[p].count < 0 THEN 0 ELSE run[p].count)

C2_Witness ==
    \E p \in Procs :
        /\ run[p].prog = SQL_BACKUP /\ run[p].pc = "s6_report"
        /\ run[p].count >= 1
        /\ Cardinality(run[p].existing) > run[p].count
        /\ Cardinality(files[run[p].type]) = run[p].count

\* C3: an expiry that completes on a tier holding k records more than
\* BACKUP_COUNT has deleted the k records with the smallest names (all of
\* them when there are fewer than k) and no other; with k <= 0 it deletes
\* nothing.
C3_ExpiryOldest ==
    \A p \in Procs :
        (run[p].prog = SQL_BACKUP /\ run[p].pc = "s6_report") =>
            LET k == Cardinality(run[p].existing) - run[p].count
            IN /\ k > 0 =>
                    /\ files[run[p].type] = run[p].existing \ Smallest(run[p].existing, k)
                    /\ k <= Cardinality(run[p].existing) =>
                          Cardinality(run[p].existing \ files[run[p].type]) = k
               /\ k <= 0 => files[run[p].type] = run[p].existing

C3_Witness ==
    \E p \in Procs :
        /\ run[p].prog = SQL_BACKUP /\ run[p].pc = "s6_report"
        /\ Cardinality(run[p].existing) - run[p].count > 0
        /\ files[run[p].type] # {}
        /\ files[run[p].type] # run[p].existing

\* C4: a promotion copies one record, the one with the smallest name of the
\* prior tier, into the current tier under the same name; a run that finds
\* one record more than BACKUP_PRIOR_COUNT in the prior tier (the prior tier
\* has grown by one since the promotion and was not pruned) copies nothing.
C4_PromotionOldest ==
    \A p \in Procs :
        (NonHourly(p) /\ run[p].pc = "s6_list") =>
            /\ run[p].copied # {} =>
                  /\ run[p].copied = Smallest(files[run[p].ptype], 1)
                  /\ Cardinality(run[p].copied) = 1
                  /\ files[run[p].type] = run[p].pre \cup run[p].copied
            /\ run[p].nprior = run[p].pcount + 1 =>
                  /\ run[p].copied = {}
                  /\ files[run[p].type] = run[p].pre

\* the record promoted earlier is still the oldest of the prior tier, which
\* now holds one record more than BACKUP_PRIOR_COUNT
C4_Witness ==
    \E p \in Procs :
        /\ NonHourly(p) /\ run[p].pc = "s6_list"
        /\ run[p].pcount >= 1
        /\ run[p].nprior = run[p].pcount + 1
        /\ run[p].ptype # run[p].type
        /\ Smallest(files[run[p].ptype], 1) \subseteq files[run[p].type]

\* C5: every record of a tier other than hourly has the name of a record an
\* hourly run created, a promotion stores a name it found in the prior tier,
\* and a run of a tier other than hourly never reaches the dump or step 4.
C5_OnlyHourlyCreates ==
    /\ \A t \in Tiers \ {B_HOURLY} : files[t] \subseteq created
    /\ \A p \in Procs :
          NonHourly(p) =>
              /\ run[p].pc \notin {"s2_exists", "s3_dump", "s3_remove", "s3_isfile",
                                   "s4_copy", "s4_remove"}
              /\ run[p].pc = "s6_list" =>
                    /\ run[p].copied \subseteq files[run[p].ptype]
                    /\ files[run[p].type] = run[p].pre \cup run[p].copied

C5_Witness ==
    \E p \in Procs :
        /\ NonHourly(p) /\ run[p].pc = "s6_list"
        /\ run[p].copied # {}
        /\ run[p].type = B_WEEKLY /\ run[p].ptype = B_DAILY

\* C6 as stated: an hourly run whose dump succeeded and produced the live
\* file has, after step 4, created exactly one new record, named after its
\* start time, and the live file is gone.
C6_Original ==
    \A p \in Procs :
        (Hourly(p) /\ run[p].pc = "s6_list") =>
            /\ RecordName(run[p]) \notin run[p].pre
            /\ files[B_HOURLY] = run[p].pre \cup {RecordName(run[p])}
            /\ NameCarries(RecordName(run[p]), Now(run[p].start))
            /\ ~live

\* C6, amended: an hourly run whose dump succeeded and produced the live
\* file, and whose copy and removal of the live file did not fail, has
\* written exactly one record, named prefix-<start time to the second>-<live
\* file name>: a new record if no record of that second existed, otherwise the
\* existing record is overwritten; the live file is gone.
C6_HourlyCreates ==
    \A p \in Procs :
        (Hourly(p) /\ run[p].pc = "s6_list") =>
            /\ \E name \in files[B_HOURLY] :
                  /\ NameCarries(name, Now(run[p].start))
                  /\ files[B_HOURLY] = run[p].pre \cup {name}
                  /\ run[p].copied = {name}
                  /\ name \in created
            /\ ~live

C6_Witness ==
    \E p \in Procs :
        /\ Hourly(p) /\ run[p].pc = "s6_list"
        /\ run[p].pre # {}
        /\ files[B_HOURLY] # run[p].pre
        /\ Now(run[p].start).microsecond # 0

\* C7 as stated: when the dump failed (and the removal of an existing live
\* file does not fail) the run reports ERROR_BU_ERROR, the records are
\* unchanged and the live file is absent, whether or not a live file existed.
C7_Original ==
    [][\A p \in Procs :
          (run[p].pc = "s3_remove" /\ (live => ~live')) =>
              /\ run'[p].outcome = ERROR_BU_ERROR
              /\ files' = files
              /\ ~live']_vars

\* C8: between runs the live file exists only if the most recent hourly run
\* ended in a failure; an hourly run that ends without one leaves none.
C8_LiveFileTransient ==
    /\ BetweenRuns /\ live => lastHourly = "failure"
    /\ \A p \in Procs :
          (Hourly(p) /\ run[p].pc \in {"s6_list", "s6_remove", "s6_report",
                                       "s7_keyscan", "s7_rsync"}) => ~live
    /\ \A p \in Procs :
          (Hourly(p) /\ run[p].pc = "done" /\ ~run[p].failed /\ ~run[p].crash)
              => ~live

C8_Witness ==
    /\ BetweenRuns
    /\ live
    /\ lastHourly = "failure"
    /\ files[B_HOURLY] # {}

\* C9 as stated: a run that met a failure it detects (bad configuration,
\* missing root directory, failed dump, copy or delete, no backup found) ends
\* with exit code 0, and a run ends with another exit code only through an
\* exception nothing catches.
C9_Original ==
    \A p \in Procs :
        run[p].pc = "done" =>
            /\ run[p].failed => run[p].exit = 0
            /\ run[p].exit # 0 => run[p].crash

\* C10 as stated: a run of sql-backup or sql-recovery that has ended has
\* written the termination message exactly once, SUCCESS if and only if the
\* run met no failure, FAILURE with the reason otherwise.
C10_Original ==
    \A p \in Procs :
        (run[p].pc = "done" /\ run[p].prog \in {SQL_BACKUP, SQL_RECOVERY}) =>
            /\ Len(run[p].msgs) = 1
            /\ run[p].msgs[1].status = "SUCCESS" <=> ~run[p].failed
            /\ run[p].msgs[1].status = "FAILURE" =>
                  (run[p].msgs[1].code # 0 \/ run[p].msgs[1].text # "")

\* p runs (or has run) one of the recovery scripts
Recovery(p) == run[p].prog \in {SQL_RECOVERY, PG_RECOVERY}

\* the names of all files 'backup*' of all tiers
AllNames == UNION {files[t] : t \in Tiers}

\* p has chosen its backup file and the volume is as the scan found it
Chosen(p) == Recovery(p) /\ run[p].pc \in {"r4_unpack", "r4_remove", "r4_restore", "r5_count"}

\* the termination log of p holds one message, of this status and text
\* (the postgresql scripts write none)
Reported(p, status, code, text) ==
    IF HasTerminationLog(run[p].prog)
    THEN run[p].msgs = <<[status |-> status, code |-> code, text |-> text]>>
    ELSE run[p].msgs = <<>>

\* C11 as stated: a promotion copy that fails ends the run as a handled
\* failure: ERROR_REMOVE_OLDEST, exit code 0, one FAILURE termination message.
C11_Original ==
    [][\A p \in Procs :
          (run[p].pc = "s5_copy" /\ run'[p].pc = "done") =>
              /\ run'[p].outcome = ERROR_REMOVE_OLDEST
              /\ run'[p].exit = 0
              /\ Len(run'[p].msgs) = 1
              /\ run'[p].msgs[1].status = "FAILURE"]_vars

\* C12 as stated: a run other than hourly that finds no record in its prior
\* tier copies nothing, meets no error and goes on to expiry, whatever
\* BACKUP_PRIOR_COUNT is.
C12_Original ==
    [][\A p \in Procs :
          (run[p].pc = "s5_list" /\ files[run[p].ptype] = {}) =>
              /\ run'[p].pc = "s6_list"
              /\ ~run'[p].crash /\ ~run'[p].failed
              /\ files' = files]_vars

C16_Original ==
    [][\A p \in Procs :
          (Recovery(p) /\ run[p].pc \notin {"idle", "done"}) =>
              /\ files' = files
              /\ live' = live
              /\ dirs' = dirs]_vars

C18_Original ==
    \A p \in Procs :
        (Recovery(p) /\ run[p].warn # "") =>
            /\ run[p].pc \notin {"r4_unpack", "r4_remove", "r4_restore", "r5_count"}
            /\ run[p].pc = "done" =>
                  /\ run[p].failed
                  /\ Len(run[p].msgs) = 1
                  /\ run[p].msgs[1].status = "FAILURE"

\* C19: the known backups hold one entry for each file name of the glob
\* result, with the directory of the first path of that name in the result;
\* every entry is a file of the volume and the file a run chooses is one.
C19_FirstOccurrenceWins ==
    \A p \in Procs :
        /\ (Recovery(p) /\ run[p].pc = "r2_scan") =>
              \A backups \in Globs :
                  LET known == KnownBackups(backups)
                  IN /\ \A i, j \in 1..Len(known) :
                           known[i].name = known[j].name => i = j
                     /\ {known[i].name : i \in 1..Len(known)}
                           = {backups[j].name : j \in 1..Len(backups)}
                     /\ \A i \in 1..Len(known) :
                           \E j \in 1..Len(backups) :
                               /\ backups[j] = known[i]
                               /\ \A k \in 1..(j - 1) : backups[k].name # known[i].name
        /\ (Recovery(p) /\ run[p].pc = "r3_select") =>
              LET known == run[p].known
              IN /\ \A i, j \in 1..Len(known) : known[i].name = known[j].name => i = j
                 /\ {known[i].name : i \in 1..Len(known)} = AllNames
                 /\ \A i \in 1..Len(known) : known[i].name \in files[known[i].dir]
                 /\ \A raw \in FromBackups :
                       LET res == SelectResult(run[p], raw)
                       IN res.pc = "r4_unpack" =>
                             \E i \in 1..Len(known) : known[i] = res.file
        /\ Chosen(p) => run[p].file.name \in files[run[p].file.dir]

\* a name that is in two tiers has one entry
C19_Witness ==
    \E p \in Procs :
        /\ Recovery(p) /\ run[p].pc = "r3_select"
        /\ \E i \in 1..Len(run[p].known) :
              \E t \in Tiers \ {run[p].known[i].dir} :
                  run[p].known[i].name \in files[t]

\* C20 as stated: what step 0 of an hourly run decides is the same for every
\* BACKUP_PRIOR_TYPE.
C20_Original ==
    \A p \in Procs :
        run[p].pc = "s0_env" =>
            \A pgpass \in BOOLEAN, aws \in 0..3, pt1 \in PriorTypes, pt2 \in PriorTypes :
                Step0([run[p] EXCEPT !.type = B_HOURLY, !.ptype = pt1], pgpass, aws).outcome
                    = Step0([run[p] EXCEPT !.type = B_HOURLY, !.ptype = pt2], pgpass, aws).outcome


(***************************************************************************)
(* The scheduled deployment (CronSpec).                                    *)
(***************************************************************************)
\* the daily run has just copied the oldest hourly record into its tier
Promoted ==
    \E p \in Procs : /\ run[p].type = B_DAILY
                     /\ run[p].pc = "s6_list"
                     /\ run[p].copied # {}

\* C21 as stated: whenever the hourly job's BACKUP_COUNT is at least the daily
\* job's BACKUP_PRIOR_COUNT, a promotion is followed by another promotion
C21_Original == [](Promoted => [](~Promoted => <>Promoted))

\* the promotion of a deployment whose hourly BACKUP_COUNT equals the daily
\* BACKUP_PRIOR_COUNT
PromotedAtThreshold == cron.count = cron.pcount /\ Promoted

\* C21: when the hourly job's BACKUP_COUNT equals the daily job's
\* BACKUP_PRIOR_COUNT, a promotion is always followed, in a later run, by
\* another promotion (the hourly tier is pruned back to the threshold by every
\* hourly run); a larger BACKUP_COUNT gives no such guarantee
C21_PromotionRecurs == [](PromotedAtThreshold => []<>PromotedAtThreshold)

\* a second record is promoted although the tier's count equals the threshold
C21_Witness ==
    /\ cron.count = cron.pcount
    /\ Promoted
    /\ Cardinality(files[B_DAILY]) >= 2


(***************************************************************************)
(* Two runs of one tier at the same time (ConcSpec).                       *)
(***************************************************************************)
\* both runs are over
BothDone == \A p \in Procs2 : run[p].pc = "done"

\* the tier both runs work on
TheirTier == run[1].type

\* C22: two runs of one tier that do not overlap (either sequential order)
\* both succeed and leave at most BACKUP_COUNT records and no live file, and
\* a run fails only if the other run was executing during it; two daily runs
\* that promote leave one promoted record, overlapping or not.  The state the
\* claim says is reachable, a failed run and a tier above BACKUP_COUNT with
\* no faulty file operation, is C22_Witness.
C22_OnlyOverlapDiffers ==
    /\ \A p \in Procs2 :
          run[p].pc = "done" /\ ~run[p].overlap => ~run[p].failed /\ ~run[p].crash
    /\ BothDone /\ (\A p \in Procs2 : ~run[p].overlap) =>
          /\ Cardinality(files[TheirTier]) <= cron.count
          /\ ~live
    /\ BothDone /\ TheirTier = B_DAILY => Cardinality(files[B_DAILY]) <= 1

\* two overlapping runs are over, no file operation met a fault of its own,
\* one run reports a failure and the tier holds more than BACKUP_COUNT records
C22_Witness ==
    /\ BothDone
    /\ \A p \in Procs2 : run[p].overlap
    /\ \E p \in Procs2 : run[p].failed
    /\ Cardinality(files[TheirTier]) > cron.count


(***************************************************************************)
(* The filename encoder and the timestamp the recovery reads back.         *)
(***************************************************************************)
\* process p has just written the record named after its start time
JustEncoded(p) == Hourly(p) /\ run[p].pc = "s4_remove"

\* C23: the filename an hourly run builds for its start time compares with
\* the filename built (same prefix and suffix) for any other time exactly as
\* the two times compare at second precision, and the sorted listing of the
\* records the runs have built is oldest first
C23_NameOrderIsTimeOrder ==
    /\ \A p \in Procs : JustEncoded(p) =>
          \A dt \in Calendar \cup {Now(i) : i \in Clock} :
             LET a == RecordName(run[p])
                 ta == SecondsOf(Now(run[p].start))
                 b == COPY_BACKUP_FILE(dt)
                 tb == SecondsOf(dt)
             IN /\ StrLess(a, b) <=> ta < tb
                /\ StrLess(b, a) <=> tb < ta
    /\ \A p \in Procs : JustEncoded(p) =>
          \A i, j \in Clock :
             LET a == COPY_BACKUP_FILE(Now(i))
                 b == COPY_BACKUP_FILE(Now(j))
                 sorted == SortAsc(files[B_HOURLY])
             IN {a, b} \subseteq files[B_HOURLY] /\ SecondsOf(Now(i)) < SecondsOf(Now(j))
                => \E k, l \in 1..Len(sorted) : k < l /\ sorted[k] = a /\ sorted[l] = b

\* a run has built a filename and the tier holds a record of another time
C23_Witness ==
    \E p \in Procs : /\ JustEncoded(p)
                     /\ \E f \in files[B_HOURLY] : StrLess(f, RecordName(run[p]))
                     /\ run[p].start = MaxClock


\* dt at second precision
ToSecond(dt) == [dt EXCEPT !.microsecond = 0]

\* C24: the date/time expression of the recovery finds a time in the filename
\* the encoder builds, and the time read there is the time the filename was
\* built for, at second precision: for the start time of the hourly run that
\* has just built its filename, and for every other time the clock can give
C24_RoundTrip ==
    \A p \in Procs : JustEncoded(p) =>
        \A dt \in Calendar \cup {Now(run[p].start)} :
            LET name == COPY_BACKUP_FILE(dt)
            IN /\ HasDateTime(name)
               /\ LatestDateTime(name) = ToSecond(dt)

\* a filename has been built for a start time with a fraction of a second
C24_Witness ==
    \E p \in Procs : /\ JustEncoded(p)
                     /\ Now(run[p].start).microsecond # 0
                     /\ RecordName(run[p]) \in files[B_HOURLY]


(***************************************************************************)
(* Expiry and the failures of steps 4 and 6 (Spec).                        *)
(***************************************************************************)
\* C25: expiry begins only when the creation (step 4) or the promotion
\* decision and copy (step 5) of the run is over; a run ends without failure
\* only after its expiry; the listing expiry counts holds the record the run
\* has just created or promoted; when expiry is over that record is gone
\* exactly if it was among the oldest excess names of the listing; and a
\* backup run removes a record only in the expiry loop and only from its own
\* tier
C25_ExpiryStep(p) ==
    LET r == run[p]
        n == run'[p]
    IN /\ n.pc = "s6_list" /\ r.pc # "s6_list" =>
             r.pc \in {"s4_remove", "s5_list", "s5_copy"}
       /\ IsBackup(n) /\ n.pc = "done" /\ r.pc # "done" /\ ~n.failed /\ ~n.crash =>
             r.pc \in {"s6_report", "s7_rsync"}
       /\ n.pc \in {"s6_remove", "s6_report"} /\ r.pc = "s6_list" =>
             n.copied \subseteq n.existing
       /\ n.pc = "s6_report" /\ r.pc \in {"s6_list", "s6_remove"} =>
             \A f \in n.copied :
                f \notin files'[n.type]
                  <=> f \in Smallest(n.existing, NumToDelete(n.existing, n.count))
       /\ \A t \in Tiers :
             IsBackup(r) /\ ~(files[t] \subseteq files'[t]) =>
                r.pc = "s6_remove" /\ r.type = t

C25_ExpiryAfterCreation == [][\A p \in Procs : C25_ExpiryStep(p)]_vars

\* expiry is over and has deleted the record the run created or promoted
C25_Witness ==
    \E p \in Procs : /\ run[p].pc = "s6_report"
                     /\ run[p].copied # {}
                     /\ run[p].copied \cap files[run[p].type] = {}
                     /\ run[p].count > 0


\* C26: when an os.remove of the expiry loop fails the run ends there with
\* ERROR_REMOVE_EXPIRED (termination message, exit code 0); the failed step
\* removes nothing; of the excess names of the listing (its NUM_TO_DELETE
\* smallest) the ones that sort before the failed one are gone, the failed
\* one and the ones after it are still there; and the tier holds more than
\* BACKUP_COUNT records
C26_FailedRemove(p) ==
    LET r == run[p]
        n == run'[p]
        excess == Smallest(r.existing, NumToDelete(r.existing, r.count))
        at == Head(r.todo)
    IN r.pc = "s6_remove" /\ n.pc = "done" =>
          /\ n.failed /\ ~n.crash
          /\ n.outcome = ERROR_REMOVE_EXPIRED
          /\ n.exit = 0
          /\ n.msgs = <<TerminationMessage(ERROR_REMOVE_EXPIRED, "")>>
          /\ files' = files
          /\ at \in excess
          /\ \A f \in excess :
                IF StrLess(f, at) THEN f \notin files'[r.type]
                ELSE f \in files'[r.type]
          /\ Cardinality(files'[r.type]) > r.count

C26_ExpiryFailure == [][\A p \in Procs : C26_FailedRemove(p)]_vars

\* a run has ended with ERROR_REMOVE_EXPIRED and its tier still holds records
C26_Witness ==
    \E p \in Procs : /\ IsBackup(run[p])
                     /\ run[p].pc = "done"
                     /\ run[p].outcome = ERROR_REMOVE_EXPIRED
                     /\ files[run[p].type] # {}


\* C27: when the copy of step 4 fails the run ends there with
\* ERROR_BACKUP_COPY, the live file still in place, no record removed (a
\* partial copy may remain under the record's name); when the copy succeeded
\* and the removal of the live file fails the run ends there with
\* ERROR_REMOVE_COPY, the new record and every other record still in place.
\* Either way the run has ended: its expiry is not executed.
C27_Step4Failure(p) ==
    LET r == run[p]
        n == run'[p]
        name == RecordName(r)
    IN /\ r.pc = "s4_copy" /\ n.pc # "s4_remove" =>
             /\ n.pc = "done" /\ n.failed /\ ~n.crash
             /\ n.outcome = ERROR_BACKUP_COPY
             /\ n.msgs = <<TerminationMessage(ERROR_BACKUP_COPY, "")>>
             /\ live /\ live'
             /\ files'[B_HOURLY] \in {files[B_HOURLY], files[B_HOURLY] \cup {name}}
             /\ \A t \in Tiers \ {B_HOURLY} : files'[t] = files[t]
       /\ r.pc = "s4_remove" /\ n.pc # "s6_list" =>
             /\ n.pc = "done" /\ n.failed /\ ~n.crash
             /\ n.outcome = ERROR_REMOVE_COPY
             /\ n.msgs = <<TerminationMessage(ERROR_REMOVE_COPY, "")>>
             /\ live /\ live'
             /\ name \in files'[B_HOURLY]
             /\ files' = files

C27_CopyAndCleanupFailure == [][\A p \in Procs : C27_Step4Failure(p)]_vars

\* a run has ended with ERROR_REMOVE_COPY: the record it wrote and the live
\* file are both there
C27_Witness ==
    \E p \in Procs : /\ IsBackup(run[p])
                     /\ run[p].pc = "done"
                     /\ run[p].outcome = ERROR_REMOVE_COPY
                     /\ live
                     /\ created \cap files[B_HOURLY] # {}


\* C28 as stated: for an hourly run about to dump with a left-over live file
\* in place, whatever the dump returns (exit code, error stream, file written
\* or not) and whether or not os.remove works, what follows the dump (the live
\* file, the outcome reported, whether the run goes on to copy) is what follows
\* it for the same run without the left-over file.
C28_Original ==
    \A p \in Procs :
        Hourly(p) /\ run[p].pc = "s3_dump" /\ live =>
            \A rc \in {0, 1}, stderr \in BOOLEAN, wrote \in BOOLEAN, ok \in BOOLEAN :
                LET r == [run[p] EXCEPT !.rc = rc, !.stderr = stderr]
                IN Step3Check(r, LiveAfterDump(TRUE, wrote), ok)
                     = Step3Check(r, LiveAfterDump(FALSE, wrote), ok)


(***************************************************************************)
(* The external steps: dump, unpack, restore, ssh-keyscan and rsync.       *)
(***************************************************************************)
\* the process exited non-zero or wrote to its error stream
BadExit(rc, stderr) == rc # 0 \/ stderr

\* where a run is about to run an external command
ExternalSteps == {"s3_dump", "r4_unpack", "r4_restore", "s7_keyscan", "s7_rsync"}

\* what the dump of p, returning rc and stderr, leads to
DumpOutcome(p, rc, stderr, wrote, ok) ==
    Step3Check([run[p] EXCEPT !.rc = rc, !.stderr = stderr],
               LiveAfterDump(live, wrote), ok).run

\* the dump, the unpack and the rsync of p make the run fail exactly when the
\* process exits non-zero or writes to its error stream
StrictSteps(p) ==
    \A rc \in {0, 1}, stderr \in BOOLEAN :
        /\ run[p].pc = "s3_dump" =>
              \A wrote \in BOOLEAN, ok \in BOOLEAN :
                 /\ BadExit(rc, stderr) =>
                       DumpOutcome(p, rc, stderr, wrote, ok).outcome
                          \in {ERROR_BU_ERROR, ERROR_REMOVE}
                 /\ ~BadExit(rc, stderr) =>
                       DumpOutcome(p, rc, stderr, wrote, ok).outcome
                          \notin {ERROR_BU_ERROR, ERROR_REMOVE}
        /\ run[p].pc = "r4_unpack" =>
              (UnpackResult(run[p], rc, stderr).pc = "r4_remove" <=> BadExit(rc, stderr))
        /\ run[p].pc = "s7_rsync" =>
              /\ RsyncResult(run[p], rc, stderr).failed <=> BadExit(rc, stderr)
              /\ BadExit(rc, stderr) =>
                    RsyncResult(run[p], rc, stderr).outcome = ERROR_RSYNC_FAILED

\* C29 as stated: the dump, the unpack, the restore and the rsync make the
\* run fail when the process exits non-zero or writes to its error stream
C29_Original ==
    \A p \in Procs :
        run[p].pc \in ExternalSteps =>
        /\ StrictSteps(p)
        /\ \A rc \in {0, 1}, stderr \in BOOLEAN :
              run[p].pc = "r4_restore" /\ BadExit(rc, stderr) =>
                 RestoreResult(run[p], rc, stderr).failed

\* what an external step of p does with each exit code and error stream,
\* and the step the restore then takes
C29_AtStep(p) ==
    run[p].pc \in ExternalSteps =>
    /\ StrictSteps(p)
    /\ \A rc \in {0, 1}, stderr \in BOOLEAN :
          /\ run[p].pc = "r4_restore" =>
                /\ RestoreResult(run[p], rc, stderr).failed <=> rc # 0
                /\ rc # 0 => RestoreResult(run[p], rc, stderr).reason = "Recovery failed"
                /\ rc = 0 => RestoreResult(run[p], rc, stderr).pc
                                = IF run[p].prog = SQL_RECOVERY THEN "r5_count" ELSE "done"
          /\ run[p].pc = "s7_keyscan" =>
                (KeyscanResult(run[p], rc, stderr).failed <=> rc # 0)
    /\ run[p].pc = "r4_restore" /\ run'[p] # run[p] =>
          \E rc \in {0, 1}, stderr \in BOOLEAN :
             run'[p] = RestoreResult(run[p], rc, stderr)

\* C29: the dump, the unpack and the rsync make the run fail exactly when the
\* process exits non-zero or writes to its error stream; the restore and the
\* ssh-keyscan make it fail exactly when the process exits non-zero: a
\* restore that exits 0 having written to its error stream goes on (to the
\* count check, or to the end of postgresql-recovery) without a failure
C29_ExternalSteps == [][\A p \in Procs : C29_AtStep(p)]_vars

\* a restore that exited 0 and wrote to its error stream has been followed by
\* the count check, no failure met
C29_Witness ==
    \E p \in Procs :
        /\ run[p].pc = "r5_count"
        /\ ~run[p].failed
        /\ run[p] = RestoreResult([run[p] EXCEPT !.pc = "r4_restore"], 0, TRUE)

\* the settings step 0 refuses: a type or a prior type it does not know, or
\* one or two of the three AWS variables
BadSettings(type, ptype, aws) ==
    \/ type \notin {B_HOURLY, B_DAILY, B_WEEKLY, B_MONTHLY}
    \/ ptype \notin {B_HOURLY, B_DAILY, B_WEEKLY}
    \/ aws \notin {0, 3}

\* the errors of steps 0 and 1 that C30 names
C30_Errors ==
    {ERROR_UNEXPECTED_BU_TYPE, ERROR_UNEXPECTED_PBU_TYPE,
     ERROR_INCOMPLETE_AWS, ERROR_NO_ROOT}

\* step 0 of the run of p, for every setting it may find: bad settings end
\* the run as a failure, good ones (the pgpass file there) take it to step 1
C30_Step0(p) ==
    run[p].pc = "s0_env" =>
       \A pgpass \in BOOLEAN, type \in BackupTypes,
          ptype \in PriorTypes, aws \in 0..3 :
          LET r == Step0([run[p] EXCEPT !.type = type, !.ptype = ptype],
                         pgpass, aws)
          IN /\ BadSettings(type, ptype, aws) =>
                   /\ r.pc = "done" /\ r.failed
                   /\ pgpass => r.outcome \in C30_Errors
             /\ pgpass /\ ~BadSettings(type, ptype, aws) =>
                   r.pc = "s1_root" /\ ~r.failed

\* a step of the start, of step 0 or of step 1 of the backup run of p
C30_Step(p) ==
    /\ run[p].pc \in {"idle", "done"} /\ run'[p].pc = "s0_env" =>
          UNCHANGED <<root, dirs, files, live>>
    /\ run[p].pc = "s0_env" =>
          /\ UNCHANGED <<root, dirs, files, live>>
          /\ run'[p].pc \in {"s0_env", "s1_root", "done"}
          /\ run'[p].pc = "done" => run'[p].failed
    /\ run[p].pc = "s1_root" =>
          /\ UNCHANGED <<root, dirs, files, live>>
          /\ ~root => /\ run'[p].pc = "done" /\ run'[p].failed
                      /\ run'[p].outcome = ERROR_NO_ROOT
          /\ root => run'[p].pc = "s1_dir"
    /\ run[p].pc = "s1_dir" =>
          /\ UNCHANGED <<root, dirs, files, live>>
          /\ run'[p].pc = IF run[p].type \in dirs THEN Branch(run[p])
                          ELSE "s1_mkdir"
    /\ run[p].pc = "s1_mkdir" =>
          /\ root /\ run[p].type \notin dirs
          /\ UNCHANGED <<root, files, live>>
          /\ \/ /\ dirs' = dirs \cup {run[p].type}
                /\ run'[p].pc = Branch(run[p]) /\ ~run'[p].failed
             \/ /\ dirs' = dirs
                /\ run'[p].pc = "done" /\ run'[p].failed
                /\ run'[p].outcome = ERROR_MKDIR

\* C30: a backup run whose BACKUP_TYPE or BACKUP_PRIOR_TYPE is not
\* recognised, that has one or two of the three object-storage settings, or
\* whose root directory is missing ends as a failure in step 0 or 1, every
\* step it took having left the root, the tier directories, the records and
\* the live file as they were; a run with good settings that finds its tier
\* directory missing under an existing root creates it, that alone changing,
\* and goes on to its branch (or ends with ERROR_MKDIR, nothing created)
C30_EarlyFailure ==
    /\ [](\A p \in Procs : C30_Step0(p))
    /\ [][\A p \in Procs : C30_Step(p)]_vars

\* a run refused for its AWS settings has ended as a failure over a tree an
\* earlier run filled, and a run before it created its tier directory
C30_Witness ==
    \E p \in Procs :
        /\ run[p].pc = "done" /\ run[p].failed
        /\ run[p].outcome = ERROR_INCOMPLETE_AWS
        /\ B_HOURLY \in dirs
        /\ files[B_HOURLY] # {}

(***************************************************************************)
(* The daily job run twice in succession (TwiceSpec).                      *)
(***************************************************************************)
\* p is the second of the two runs and its steps 5 and 6 are over: it is
\* about to report the tier, or an exception of step 5 ended it
SecondRunOver(p) ==
    /\ \E q \in Procs2 \ {p} : run[q].pc = "done"
    /\ \/ run[p].pc = "s6_report"
       \/ run[p].pc = "done" /\ run[p].crash

\* C31: when the daily job is run a second time, the hourly tier unchanged
\* since the first run, the daily tier holds after the second run's promotion
\* and expiry the set of records the first run left (run[p].pre, the tier as
\* the second run found it); when the second run promotes a record whose copy
\* the first run left in the tier, the copy replaces it and the tier holds no
\* more records than before
C31_SecondRunAddsNothing ==
    \A p \in Procs2 :
        /\ SecondRunOver(p) => files[B_DAILY] = run[p].pre
        /\ /\ \E q \in Procs2 \ {p} : run[q].pc = "done"
           /\ run[p].pc = "s6_list"
           /\ run[p].copied # {}
           => /\ run[p].copied = {run[p].oldest}
              /\ run[p].nprior = cron.pcount
              /\ files[B_DAILY] = run[p].pre \cup run[p].copied
              /\ run[p].oldest \in run[p].pre => files[B_DAILY] = run[p].pre

\* the second run has promoted the record the first run promoted, the hourly
\* tier holding exactly BACKUP_PRIOR_COUNT records, and its expiry is over
C31_Witness ==
    \E p \in Procs2 :
        /\ SecondRunOver(p)
        /\ run[p].pc = "s6_report"
        /\ run[p].copied # {}
        /\ run[p].copied \subseteq run[p].pre
        /\ Cardinality(files[B_HOURLY]) = cron.pcount
        /\ Cardinality(files[B_DAILY]) = 2

(***************************************************************************)
(* The remote sync (step 7).                                               *)
(***************************************************************************)
\* the errors of step 7
SyncErrors ==
    {ERROR_MISSING_RSYNC_USER, ERROR_MISSING_RSYNC_PASS, ERROR_MISSING_RSYNC_PATH,
     ERROR_KEYSCAN_FAILED, ERROR_RSYNC_FAILED}

\* the set of the members of a sequence
Members(seq) == {seq[i] : i \in 1..Len(seq)}

\* step 7 of the run of p for every setting of the four rsync variables: the
\* sync is started exactly in an hourly run with all four set, an hourly run
\* with a host and one of the others missing fails, any other run ends well
C32_Settings(p) ==
    run[p].pc = "s6_report" =>
       \A host \in BOOLEAN, user \in BOOLEAN, pass \in BOOLEAN, path \in BOOLEAN :
          LET n == Step7Check(run[p], host, user, pass, path)
          IN /\ n.pc = "s7_keyscan" <=>
                   run[p].type = B_HOURLY /\ host /\ user /\ pass /\ path
             /\ run[p].type = B_HOURLY /\ host /\ ~(user /\ pass /\ path) =>
                   /\ n.pc = "done" /\ n.failed
                   /\ n.outcome \in SyncErrors
             /\ ~(run[p].type = B_HOURLY /\ host) =>
                   n.pc = "done" /\ ~n.failed

\* a step of the run of p seen from step 7
C32_Step(p) ==
    LET r == run[p]
        n == run'[p]
    IN /\ n.pc \in {"s7_keyscan", "s7_rsync"} =>
             /\ r.pc \in {"s6_report", "s7_keyscan", "s7_rsync"}
             /\ r.type = B_HOURLY
             /\ ~r.failed /\ ~r.crash
             /\ ~DumpFailed(r.rc, r.stderr)
             /\ r.copied = {RecordName(r)}
             /\ ~live
             /\ r.todo = <<>>
             /\ files[B_HOURLY] = r.existing \ Members(Expired(r.existing, r.count))
       /\ IsBackup(r) /\ r.pc \in {"s6_report", "s7_keyscan", "s7_rsync"} =>
             /\ UNCHANGED <<root, dirs, files, live>>
             /\ n.pc = "done" =>
                   /\ n.exit = 0
                   /\ n.failed =>
                         /\ n.outcome \in SyncErrors
                         /\ n.msgs = <<TerminationMessage(n.outcome, "")>>
                         /\ n.msgs[1].status = "FAILURE"
                   /\ ~n.failed => n.msgs = <<TerminationMessage(0, "")>>

\* C32: the remote sync (ssh-keyscan, then rsync) is started only from the
\* end of step 6 of an hourly run with RSYNC_HOST and the three other
\* settings set, the dump having succeeded, the record copied, the live file
\* removed and every expired record deleted; a run of another tier and a run
\* that failed never start it; an hourly run with RSYNC_HOST set and a
\* setting missing, and a run whose keyscan or rsync fails, end with a
\* FAILURE termination message, and no step from the end of step 6 on
\* changes a directory, a record or the live file (the new record is where
\* expiry left it)
C32_SyncAfterBackup ==
    /\ [](\A p \in Procs : C32_Settings(p))
    /\ [][\A p \in Procs : C32_Step(p)]_vars

\* an hourly run has failed in its rsync and its record is in the tier
C32_Witness ==
    \E p \in Procs :
        /\ run[p].pc = "done" /\ run[p].failed
        /\ run[p].outcome = ERROR_RSYNC_FAILED
        /\ run[p].type = B_HOURLY
        /\ files[B_HOURLY] # {}
        /\ ~live

(***************************************************************************)
(* The age of the latest backup.                                           *)
(***************************************************************************)
\* the time of reading i lies s seconds before now, s at least 0, and h is
\* the number of whole hours in s
WholeHours(now, i, h) ==
    LET s == SecondsOf(now) - SecondsOf(Now(i))
    IN s >= 0 /\ h * 3600 <= s /\ s < (h + 1) * 3600

\* the check of step 2, for every record of the volume taken as the latest
\* backup, every time of the recovery and every bound of the environment
C33_AgeInHours(p) ==
    /\ run[p].pc = "r0_env" =>
          \A str \in {a \in AgeStrings : IsInt(a)} :
             /\ MaximumAgeH(str) >= 0
             /\ IntOf(str) >= 0 => MaximumAgeH(str) = IntOf(str)
             /\ IntOf(str) < 0 => MaximumAgeH(str) = 0
    /\ run[p].pc = "r2_scan" =>
          \A i \in 0..MaxClock, now \in RecoveryNows :
             LET name == COPY_BACKUP_FILE(Now(i))
                 r == [run[p] EXCEPT !.latest = name]
             IN name \in AllNames =>
                /\ \A h \in 0..8 :
                      WholeHours(now, i, h) =>
                         /\ LatestAgeH(now, name) = h
                         /\ AgeCheck(r, now).warn = "too old"
                               <=> r.age # 0 /\ h > r.age
                /\ r.age = 0 => AgeCheck(r, now) = r
                /\ ~AgeCheck(r, now).failed

\* the step of the scan: the condition is logged only for a bound above 0 and
\* a latest backup whose age at one of the times is above it
C33_Step(p) ==
    run[p].pc = "r2_scan" /\ run'[p].warn = "too old" =>
       /\ run[p].age > 0
       /\ run'[p].latest # NoName
       /\ \E now \in RecoveryNows : LatestAgeH(now, run'[p].latest) > run[p].age

\* C33: for a latest backup that is not younger than 0 seconds the age in
\* hours is the number of whole hours in its age in seconds; the too-old
\* condition is logged exactly when the bound is not 0 and that number is
\* greater than the bound (5 hours 59 minutes is not too old for a bound of
\* 5, 6 hours is); a negative LATEST_BACKUP_MAXIMUM_AGE_H becomes 0, and with
\* 0 nothing is checked
C33_AgeCheck ==
    /\ [](\A p \in Procs : C33_AgeInHours(p))
    /\ [][\A p \in Procs : C33_Step(p)]_vars

\* a recovery has logged that its latest backup, the record of reading 1, is
\* too old: of the times of the recovery only the one 6 hours after reading 1
\* makes it so
C33_Witness ==
    \E p \in Procs :
        /\ run[p].pc = "r3_select"
        /\ run[p].warn = "too old"
        /\ run[p].latest = COPY_BACKUP_FILE(Now(1))

(***************************************************************************)
(* The directories a run works in.                                         *)
(***************************************************************************)
\* a step of the backup run of p, whose tier is run[p].type once step 0 has
\* read it
C34_Step(p) ==
    IsBackup(run[p]) =>
       /\ root' = root
       /\ \A t \in Tiers \ {run[p].type} :
             /\ files'[t] = files[t]
             /\ t \in dirs' <=> t \in dirs
       /\ run[p].type # B_HOURLY => live' = live
       /\ run[p].pc = "s5_copy" /\ files' # files =>
             /\ files'[run[p].type] = files[run[p].type] \cup {run[p].oldest}
             /\ run[p].ptype # run[p].type
             /\ run[p].oldest \in files'[run[p].ptype]

\* C34: every step of a backup run leaves the root, the live file of the
\* hourly tier (unless the run is hourly) and the directory and the records
\* of every tier other than the run's own as they were; the promotion adds
\* the oldest prior record to the run's tier and the record is still in the
\* prior tier
C34_OwnDirectoryOnly == [][\A p \in Procs : C34_Step(p)]_vars

\* a weekly run has copied a daily record: the record is in both tiers
C34_Witness ==
    \E p \in Procs :
        /\ run[p].type = B_WEEKLY /\ run[p].ptype = B_DAILY
        /\ run[p].pc = "s6_list"
        /\ run[p].copied # {}
        /\ run[p].copied \subseteq files[B_DAILY] \cap files[B_WEEKLY]

(***************************************************************************)
(* Runs of two tiers at the same time (TiersSpec).                         *)
(***************************************************************************)
\* what a daily run that finds the records H in the hourly tier copies
Decision(H, prior_count) ==
    IF PriorIsFull(Cardinality(H), prior_count) /\ H # {} THEN {OldestOf(H)} ELSE {}

\* the hourly tier after an hourly run that found H, named its record name
\* and expired with count
AfterHourly(H, name, count) ==
    (H \cup {name}) \ Members(Expired(H \cup {name}, count))

\* C35 as stated: the hourly run of process 1 and the daily run of process 2
\* interleaved, the daily run does not end in an exception and what it
\* copied is what a daily run copies that finds the hourly tier as it was
\* before the hourly run (run[1].pre) or as the hourly run leaves it
C35_Original ==
    /\ run[1].type = B_HOURLY /\ run[1].pc = "s6_report"
    /\ run[2].type = B_DAILY
    /\ run[2].pc = "s6_report" \/ run[2].crash
    => /\ ~run[2].crash
       /\ run[2].copied \in
             {Decision(run[1].pre, cron.pcount),
              Decision(AfterHourly(run[1].pre, RecordName(run[1]), cron.count),
                       cron.pcount)}

(***************************************************************************)
(* The end of promotion (CronSpec).                                        *)
(***************************************************************************)
\* the hourly job keeps more records than the daily job waits for, and the
\* hourly tier holds more than that number
PriorAboveThreshold ==
    /\ cron.count > cron.pcount
    /\ Cardinality(files[B_HOURLY]) > cron.pcount

\* C36: in the scheduled runs of the hourly and the daily job, none meeting a
\* failure, with the hourly BACKUP_COUNT greater than the daily
\* BACKUP_PRIOR_COUNT: from the moment the hourly tier holds more than
\* BACKUP_PRIOR_COUNT records on, no daily run promotes a record
C36_PromotionEnds == [](PriorAboveThreshold => []~Promoted)

\* a daily run promoted while the hourly tier was filling, the hourly tier
\* has since gone above the threshold, and a later daily run has listed it
\* and copied nothing
C36_Witness ==
    /\ PriorAboveThreshold
    /\ files[B_DAILY] # {}
    /\ \E p \in Procs : /\ run[p].type = B_DAILY
                        /\ run[p].pc = "s6_list"
                        /\ run[p].copied = {}
                        /\ run[p].nprior > cron.pcount

(***************************************************************************)
(* The order of the records along the chain (ChainSpec).                   *)
(***************************************************************************)
\* no record of S is newer than a record of T
NoneNewer(S, T) == \A f \in S, g \in T : ~StrLess(g, f)

\* C37: from empty directories, the runs one at a time and without failure,
\* the hourly runs at strictly increasing times, each tier fed from its
\* predecessor: no record of a tier is newer than a record of its prior tier
\* (so none is newer than the prior tier's oldest record), and the record a
\* run has just promoted is not older than any record the tier held before
C37_ChainOrder ==
    /\ \A t \in Tiers \ {B_HOURLY} : NoneNewer(files[t], files[PriorOf(t)])
    /\ \A p \in Procs :
          NonHourly(p) /\ run[p].pc = "s6_list" =>
             NoneNewer(run[p].pre, run[p].copied)

\* a daily run has promoted a second, newer record next to the first one,
\* and the weekly tier holds the older one
C37_Witness ==
    \E p \in Procs :
        /\ run[p].type = B_DAILY /\ run[p].pc = "s6_list"
        /\ run[p].copied # {}
        /\ run[p].pre # {}
        /\ run[p].copied \cap run[p].pre = {}
        /\ files[B_WEEKLY] # {}

(***************************************************************************)
(* The newest record and the recovery that follows (RestoreSpec).          *)
(***************************************************************************)
\* the hourly run of process 1 is over without a failure
HourlyDone ==
    /\ run[1].pc = "done" /\ run[1].type = B_HOURLY
    /\ ~run[1].failed /\ ~run[1].crash

\* C38: an hourly run with a BACKUP_COUNT of at least 1 that started later
\* than the time of every record of every tier and met no failure: at the end
\* of its expiry the record it wrote is in the hourly tier, and so it is when
\* the run is over; a recovery started next with FROM_BACKUP=LATEST has as
\* its latest backup, and chooses, that record in the hourly directory
C38_NewRecordIsLatest ==
    /\ run[1].pc = "s6_report" => run[1].copied \subseteq files[B_HOURLY]
    /\ HourlyDone /\ run[2].pc \in {"idle", "r0_env", "r1_root", "r2_scan"} =>
          /\ Cardinality(created) = 1
          /\ created \subseteq files[B_HOURLY]
          /\ \A t \in Tiers \ {B_HOURLY} : created \cap files[t] = {}
    /\ HourlyDone /\ run[2].pc = "r3_select" =>
          /\ {run[2].latest} = created
          /\ LET n == SelectResult(run[2], B_LATEST)
             IN /\ n.pc = "r4_unpack"
                /\ n.file.dir = B_HOURLY
                /\ {n.file.name} = created
    /\ HourlyDone /\ Chosen(2) /\ run[2].from = B_LATEST =>
          /\ run[2].file.dir = B_HOURLY
          /\ {run[2].file.name} = created
          /\ run[2].file.name \in files[B_HOURLY]

\* the recovery that followed the hourly run is about to unpack the record
\* the run wrote; the volume holds older records in two tiers
C38_Witness ==
    /\ HourlyDone
    /\ run[2].pc = "r4_unpack" /\ run[2].from = B_LATEST
    /\ {run[2].file.name} = created
    /\ files[B_DAILY] # {}
    /\ Cardinality(files[B_HOURLY]) >= 2

\* the files of the directory of tier t that are not the live file
C39_Records(t) == DirEntries(files, live, t) \ {BACKUP_LIVE_FILE}

\* the run of p moves in the step
C39_Moves(p) == run'[p].pc # run[p].pc \/ run'[p].todo # run[p].todo

\* what a step of the run of p does with the live file
C39_Step(p) ==
    LET r == run[p]
        n == run'[p]
    IN C39_Moves(p) =>
       /\ r.pc = "s5_list" =>
             /\ n.nprior = Cardinality(C39_Records(r.ptype))
             /\ n.pc = "s5_copy" =>
                   /\ n.nprior = n.pcount
                   /\ n.oldest \in C39_Records(r.ptype)
             /\ n.pc = "s6_list" => n.nprior # n.pcount
       /\ r.pc = "s5_copy" =>
             /\ live' = live
             /\ \A t \in Tiers : files'[t] \ files[t] \subseteq {r.oldest}
             /\ r.oldest # BACKUP_LIVE_FILE
       /\ r.pc = "s6_list" =>
             /\ n.existing = C39_Records(r.type)
             /\ LET num == Cardinality(C39_Records(r.type)) - n.count
                IN Len(n.todo) = IF num <= 0 THEN 0
                                 ELSE IF num > Cardinality(C39_Records(r.type))
                                 THEN Cardinality(C39_Records(r.type))
                                 ELSE num
             /\ \A i \in 1..Len(n.todo) : n.todo[i] # BACKUP_LIVE_FILE
       /\ r.pc = "s6_remove" =>
             /\ live' = live
             /\ \A t \in Tiers : files[t] \ files'[t] \subseteq {Head(r.todo)}
             /\ Head(r.todo) # BACKUP_LIVE_FILE
       /\ r.pc = "r2_scan" =>
             /\ {n.known[i].name : i \in 1..Len(n.known)}
                   = UNION {C39_Records(t) : t \in Tiers}
             /\ n.latest # BACKUP_LIVE_FILE

\* C39: the live file is no record.  No tier holds a record of the live
\* file's name.  In every run the number compared with BACKUP_PRIOR_COUNT is
\* the number of files of the prior directory other than the live file, and
\* the file to promote is one of those; the files listed for expiry, and the
\* number compared with BACKUP_COUNT, are those of the tier's directory other
\* than the live file; promotion and expiry leave the live file as it is;
\* and the recovery's index holds the names of the records of all tiers and
\* not the live file's, which is not the latest backup either
C39_LiveFileIsNoRecord ==
    /\ [](\A t \in Tiers : BACKUP_LIVE_FILE \notin files[t])
    /\ [][\A p \in Procs2 : C39_Step(p)]_vars

\* the hourly run has copied its live file to a record and not yet removed
\* it, and a daily run beside it has since counted the hourly directory (the
\* new record included) and found as many records as BACKUP_PRIOR_COUNT
C39_Witness ==
    /\ live
    /\ run[1].pc = "s4_remove"
    /\ Cardinality(created) = 1
    /\ created \subseteq files[B_HOURLY]
    /\ run[2].pc = "s5_copy"
    /\ run[2].ptype = B_HOURLY
    /\ run[2].nprior = Cardinality(files[B_HOURLY] \ created) + 1

====
